---- MODULE Spec2Model ----
(***************************************************************************)
(* Tile addressing, attribution lookup and metadata bootstrap of the       *)
(* BingMapsImageryProvider and the ArcGisMapServerImageryProvider, and the *)
(* export functions of ITwinPlatform.                                      *)
(*                                                                         *)
(* The module holds these state machines over one set of variables:        *)
(*   SpecQuadKey      the quadkey encoder/decoder (pure functions),        *)
(*   SpecAttribution  getTileCredits / getRectangleAttribution,            *)
(*   SpecArcGis       construction, metadata resolution, build and the     *)
(*                    per-tile operations of the ArcGIS provider           *)
(*                    (SpecArcGisCalls, SpecArcGisPick: with its calls     *)
(*                    and with its identify responses),                    *)
(*   SpecMetadata     several constructions of either provider, their      *)
(*                    requestMetadata operations and the fetches behind    *)
(*                    them, interleaved,                                   *)
(*   SpecITwin        one call of getExport, getExports or                 *)
(*                    createExportForModelId and its response,             *)
(*   SpecCalls        a built provider of either kind and several          *)
(*                    per-tile calls in flight on it.                      *)
(* Each specification leaves the variables of the others at their idle     *)
(* values.                                                                 *)
(***************************************************************************)
EXTENDS Integers, Sequences, FiniteSets, TLC

(***************************************************************************)
(* JavaScript values.  undefined is the empty tuple; an object is a record *)
(* and stands for itself; a number, boolean or string held by a field that *)
(* may also be undefined is boxed in a 1-tuple.                            *)
(***************************************************************************)
Undefined == <<>>

Box(v) == <<v>>

Unbox(v) == v[1]

defined(v) == v # Undefined

defaultValue(a, b) == IF defined(a) THEN a ELSE b

VARIABLES
  \* quadkey machine
  qkPc,        \* "input" | "encoded" | "decoded"
  qkTile,      \* the tile handed to tileXYToQuadKey
  quadkey,     \* the string returned by tileXYToQuadKey, a sequence of characters
               \* (empty until Encode has run)
  qkDecoded,   \* the object returned by quadKeyToTileXY
  \* attribution machine
  attributionList,  \* provider._attributionList after build
  creditTile,       \* the tile of the last getTileCredits call
  credits,          \* the array returned by the last getTileCredits call
                    \* (empty until the first call)
  \* ArcGIS MapServer machine
  agPc,          \* "start" | "awaiting" | "resolved" | "ready" | "failed"
  agPath,        \* "fromUrl" | "constructor" (the deprecated options.url path)
  agOptions,     \* the options object of the caller
  agResponse,    \* what the capability query came back with
  agBuilder,     \* the ImageryProviderBuilder
  agProvider,    \* the fields of the ArcGisMapServerImageryProvider
  agOutcome,     \* the promise of fromUrl, or the constructor's _readyPromise
  agErrorEvents, \* the messages raised on provider._errorEvent
  agFetches,     \* number of capability queries issued (fetchJsonp)
  agCall,        \* the last requestImage / pickFeatures call and what it did
  \* metadata machine: several constructions, interleaved
  mdConstructions, \* the constructions started so far, in order
  mdOperations,    \* the requestMetadata calls made so far, in order
  mdFetches,       \* the fetchJsonp calls made so far, in order
  _metadataCache,  \* BingMapsImageryProvider._metadataCache: cacheKey -> fetch
  \* iTwin platform machine
  itCall,          \* the ITwinPlatform call in progress and what became of it
  \* per-tile calls machine
  calls            \* the requestImage / pickFeatures / getTileCredits calls
                   \* made on the built provider, in order

qkVars == <<qkPc, qkTile, quadkey, qkDecoded>>
atVars == <<attributionList, creditTile, credits>>
agVars == <<agPc, agPath, agOptions, agResponse, agBuilder, agProvider, agOutcome,
            agErrorEvents, agFetches, agCall>>
mdVars == <<mdConstructions, mdOperations, mdFetches, _metadataCache>>
itVars == <<itCall>>
cfVars == <<calls>>
vars == <<qkVars, atVars, agVars, mdVars, itVars, cfVars>>

(***************************************************************************)
(* Bounds of the model.                                                    *)
(***************************************************************************)
\* Deepest tile level handed to the quadkey functions.
MaxQuadKeyLevel == 3
\* Longest attribution list and longest coverage-area list of one entry.
MaxEntries == 2
MaxAreas == 2
\* Most options the caller sets on the options object of one construction.
MaxOptions == 2
\* Most constructions the metadata machine starts.
MaxConstructions == 2
\* The longest results list of an identify response.
MaxFeatures == 2
\* The most per-tile calls made on a provider.
MaxCalls == 2

(***************************************************************************)
(* JavaScript's bitwise operators on 32-bit integers.  Every operand the   *)
(* quadkey functions produce is non-negative and below 2^30 (levels go up  *)
(* to 23), where the operators agree with the unbounded ones below.        *)
(***************************************************************************)
\* a & b
RECURSIVE BitAnd(_, _)
BitAnd(a, b) ==
  IF a = 0 \/ b = 0 THEN 0
  ELSE (a % 2) * (b % 2) + 2 * BitAnd(a \div 2, b \div 2)

\* a | b
RECURSIVE BitOr(_, _)
BitOr(a, b) ==
  IF a = 0 THEN b
  ELSE IF b = 0 THEN a
  ELSE (IF a % 2 = 1 \/ b % 2 = 1 THEN 1 ELSE 0) + 2 * BitOr(a \div 2, b \div 2)

\* a << i
ShiftLeft(a, i) == a * 2 ^ i

(***************************************************************************)
(* Strings are sequences of one-character strings.                         *)
(***************************************************************************)
DigitChars == <<"0", "1", "2", "3", "4", "5", "6", "7", "8", "9">>

\* String(digit) for a one-digit number: what `quadkey += digit` appends.
DigitToString(d) == <<DigitChars[d + 1]>>

\* +c for a one-character string; NaN behaves as 0 under & and is modelled as 0.
CharToNumber(c) ==
  IF \E k \in 1..Len(DigitChars) : DigitChars[k] = c
  THEN (CHOOSE k \in 1..Len(DigitChars) : DigitChars[k] = c) - 1
  ELSE 0

(***************************************************************************)
(* BingMapsImageryProvider.tileXYToQuadKey                                 *)
(***************************************************************************)
\* The body of the for loop, from i down to 0.
RECURSIVE tileXYToQuadKeyLoop(_, _, _, _)
tileXYToQuadKeyLoop(x, y, i, key) ==
  IF i >= 0
  THEN LET bitmask == ShiftLeft(1, i)
           digitX == IF BitAnd(x, bitmask) # 0 THEN BitOr(0, 1) ELSE 0
           digit == IF BitAnd(y, bitmask) # 0 THEN BitOr(digitX, 2) ELSE digitX
       IN tileXYToQuadKeyLoop(x, y, i - 1, key \o DigitToString(digit))
  ELSE key

\* Mutant: the loop stops at bit 1, as in the one-based Bing tile system.
tileXYToQuadKey_fromLevelMinusOne(x, y, level) ==
  tileXYToQuadKeyLoop(x, y, level - 1, <<>>)

\* Mutant: the x and y bits of the digit are exchanged.
tileXYToQuadKey_swapXY(x, y, level) == tileXYToQuadKeyLoop(y, x, level, <<>>)

tileXYToQuadKey(x, y, level) == tileXYToQuadKeyLoop(x, y, level, <<>>)

(***************************************************************************)
(* BingMapsImageryProvider.quadKeyToTileXY                                 *)
(***************************************************************************)
RECURSIVE quadKeyToTileXYLoop(_, _, _, _, _)
quadKeyToTileXYLoop(key, level, i, x, y) ==
  IF i >= 0
  THEN LET bitmask == ShiftLeft(1, i)
           digit == CharToNumber(key[level - i + 1])
           x2 == IF BitAnd(digit, 1) # 0 THEN BitOr(x, bitmask) ELSE x
           y2 == IF BitAnd(digit, 2) # 0 THEN BitOr(y, bitmask) ELSE y
       IN quadKeyToTileXYLoop(key, level, i - 1, x2, y2)
  ELSE [x |-> x, y |-> y, level |-> level]

quadKeyToTileXY(key) == quadKeyToTileXYLoop(key, Len(key) - 1, Len(key) - 1, 0, 0)

(***************************************************************************)
(* The quadkey machine: a tile is chosen, encoded, and the key decoded.    *)
(***************************************************************************)
\* Bing's tiling scheme has 2 x 2 tiles at level 0.
QuadKeyTiles ==
  { [x |-> x, y |-> y, level |-> level] :
      x \in 0..(2 ^ (MaxQuadKeyLevel + 1) - 1),
      y \in 0..(2 ^ (MaxQuadKeyLevel + 1) - 1),
      level \in 0..MaxQuadKeyLevel }

QuadKeyInit ==
  /\ qkPc = "input"
  /\ qkTile \in { t \in QuadKeyTiles : t.x < 2 ^ (t.level + 1) /\ t.y < 2 ^ (t.level + 1) }
  /\ quadkey = <<>>
  /\ qkDecoded = Undefined

Encode ==
  /\ qkPc = "input"
  /\ quadkey' = tileXYToQuadKey(qkTile.x, qkTile.y, qkTile.level)
  /\ qkPc' = "encoded"
  /\ UNCHANGED <<qkTile, qkDecoded>>

Decode ==
  /\ qkPc = "encoded"
  /\ qkDecoded' = quadKeyToTileXY(quadkey)
  /\ qkPc' = "decoded"
  /\ UNCHANGED <<qkTile, quadkey>>

QuadKeyIdle ==
  /\ qkPc = "idle"
  /\ qkTile = Undefined
  /\ quadkey = <<>>
  /\ qkDecoded = Undefined

(***************************************************************************)
(* Rectangles.  Coordinates are in units of the finest tile of the model:  *)
(* a monotone rescaling of the radians the code uses, which keeps every    *)
(* comparison getRectangleAttribution depends on.                          *)
(***************************************************************************)
Rectangle(west, south, east, north) ==
  [west |-> west, south |-> south, east |-> east, north |-> north]

Max(a, b) == IF a >= b THEN a ELSE b

Min(a, b) == IF a <= b THEN a ELSE b

\* Rectangle.intersection for rectangles that do not cross the antimeridian:
\* undefined when the two only touch or are apart.
Rectangle_intersection(rectangle, otherRectangle) ==
  LET west == Max(rectangle.west, otherRectangle.west)
      east == Min(rectangle.east, otherRectangle.east)
      south == Max(rectangle.south, otherRectangle.south)
      north == Min(rectangle.north, otherRectangle.north)
  IN IF east <= west THEN Undefined
     ELSE IF south >= north THEN Undefined
     ELSE Rectangle(west, south, east, north)

\* Levels of the tiles credits are asked for.
CreditLevels == 0..1

\* Width of the world in finest tiles: Bing has 2 x 2 tiles at level 0.
WorldSize == 2 ^ (1 + 1)

\* WebMercatorTilingScheme(2 x 2).tileXYToRectangle: tile (0, 0) is the north-west corner.
tileXYToRectangle(x, y, level) ==
  LET size == WorldSize \div (2 ^ (level + 1))
  IN Rectangle(x * size, WorldSize - (y + 1) * size, (x + 1) * size, WorldSize - y * size)

(***************************************************************************)
(* getRectangleAttribution                                                 *)
(***************************************************************************)
\* The inner loop over the coverage areas of one attribution.
RECURSIVE coverageAreasLoop(_, _, _, _, _)
coverageAreasLoop(coverageAreas, areaIndex, included, level, rectangle) ==
  IF ~included /\ areaIndex < Len(coverageAreas)
  THEN LET area == coverageAreas[areaIndex + 1]
           now == IF level >= area.zoomMin /\ level <= area.zoomMax
                  THEN (IF defined(Rectangle_intersection(rectangle, area.bbox))
                        THEN TRUE ELSE included)
                  ELSE included
       IN coverageAreasLoop(coverageAreas, areaIndex + 1, now, level, rectangle)
  ELSE included

\* The outer loop over the attribution list.
RECURSIVE attributionLoop(_, _, _, _, _)
attributionLoop(list, attributionIndex, result, level, rectangle) ==
  IF attributionIndex < Len(list)
  THEN LET attribution == list[attributionIndex + 1]
           included == coverageAreasLoop(attribution.coverageAreas, 0, FALSE, level, rectangle)
       IN attributionLoop(list, attributionIndex + 1,
                          IF included THEN Append(result, attribution.credit) ELSE result,
                          level, rectangle)
  ELSE result

\* Mutant: the level is not moved to Bing's one-based levels.
getRectangleAttribution_zeroBasedLevel(list, level, rectangle) ==
  attributionLoop(list, 0, <<>>, level, rectangle)

\* Mutant: the list is walked from its end, so the credits come out reversed
\* (the result is built by prepending).
RECURSIVE attributionLoop_prepend(_, _, _, _, _)
attributionLoop_prepend(list, attributionIndex, result, level, rectangle) ==
  IF attributionIndex < Len(list)
  THEN LET attribution == list[attributionIndex + 1]
           included == coverageAreasLoop(attribution.coverageAreas, 0, FALSE, level, rectangle)
       IN attributionLoop_prepend(list, attributionIndex + 1,
                                  IF included THEN <<attribution.credit>> \o result ELSE result,
                                  level, rectangle)
  ELSE result

getRectangleAttribution_reversed(list, level, rectangle) ==
  attributionLoop_prepend(list, 0, <<>>, level + 1, rectangle)

getRectangleAttribution(list, level, rectangle) ==
  attributionLoop(list, 0, <<>>, level + 1, rectangle)

\* BingMapsImageryProvider.prototype.getTileCredits
getTileCredits(list, x, y, level) ==
  getRectangleAttribution(list, level, tileXYToRectangle(x, y, level))

(***************************************************************************)
(* The attribution machine: a built provider answers a getTileCredits call.*)
(***************************************************************************)
\* The coverage areas a metadata document may carry, after build has turned
\* each bbox into a Rectangle.
CoverageAreas ==
  { [zoomMin |-> 1, zoomMax |-> 1, bbox |-> Rectangle(0, 2, 2, 4)],
    [zoomMin |-> 2, zoomMax |-> 2, bbox |-> Rectangle(1, 1, 3, 3)],
    [zoomMin |-> 1, zoomMax |-> 2, bbox |-> Rectangle(0, 0, 4, 4)] }

SeqsUpTo(S, n) == UNION { [1..k -> S] : k \in 0..n }

\* build gives the entry at index k its own Credit object, named by k.
AttributionLists ==
  { [k \in 1..Len(areas) |-> [credit |-> k, coverageAreas |-> areas[k]]] :
      areas \in SeqsUpTo(SeqsUpTo(CoverageAreas, MaxAreas), MaxEntries) }

\* The tiles credits are asked for: the four tiles of level 0 and the four
\* north-west tiles of level 1.
CreditTiles ==
  { [x |-> x, y |-> y, level |-> level] : x \in 0..1, y \in 0..1, level \in CreditLevels }

AttributionInit ==
  /\ attributionList \in AttributionLists
  /\ creditTile = Undefined
  /\ credits = <<>>

\* provider.getTileCredits(x, y, level): the call of the behaviour.
GetTileCredits ==
  \E tile \in CreditTiles :
    /\ ~defined(creditTile)
    /\ creditTile' = tile
    /\ credits' = getTileCredits(attributionList, tile.x, tile.y, tile.level)
    /\ UNCHANGED attributionList

AttributionIdle ==
  /\ attributionList = <<>>
  /\ creditTile = Undefined
  /\ credits = <<>>

(***************************************************************************)
(* ArcGisMapServerImageryProvider: values of the model                     *)
(***************************************************************************)
\* The resource url the provider was created from.
ResourceUrl == "https://example.test/MapServer/"

\* Tiling schemes are named by their class; their projection is the
\* GeographicProjection exactly for the GeographicTilingScheme.
projectionIsGeographic(tilingScheme) == tilingScheme = "Geographic"

\* tilingScheme.rectangle
tilingSchemeRectangle(tilingScheme) == [of |-> "tilingScheme", scheme |-> tilingScheme]

\* new Credit(text)
Credit(text) == [credit |-> text]

\* Native coordinates are in eighths of a degree for the geographic
\* projection; the web-mercator ones are scaled so that pi * maximumRadius
\* is 180 * 8 as well.
NativeHalfWidth == 180 * 8

\* GeographicTilingScheme (2 x 1 tiles at level 0) and WebMercatorTilingScheme
\* (1 x 1): tileXYToNativeRectangle.
tileXYToNativeRectangle(tilingScheme, x, y, level) ==
  IF projectionIsGeographic(tilingScheme)
  THEN LET xTiles == ShiftLeft(2, level)
           yTiles == ShiftLeft(1, level)
           xTileWidth == (2 * NativeHalfWidth) \div xTiles
           yTileHeight == NativeHalfWidth \div yTiles
       IN Rectangle(x * xTileWidth - NativeHalfWidth,
                    NativeHalfWidth \div 2 - (y + 1) * yTileHeight,
                    (x + 1) * xTileWidth - NativeHalfWidth,
                    NativeHalfWidth \div 2 - y * yTileHeight)
  ELSE LET xTiles == ShiftLeft(1, level)
           yTiles == ShiftLeft(1, level)
           xTileWidth == (2 * NativeHalfWidth) \div xTiles
           yTileHeight == (2 * NativeHalfWidth) \div yTiles
       IN Rectangle(x * xTileWidth - NativeHalfWidth,
                    NativeHalfWidth - (y + 1) * yTileHeight,
                    (x + 1) * xTileWidth - NativeHalfWidth,
                    NativeHalfWidth - y * yTileHeight)

\* The options a caller may set, each with the values the model gives it.
OptionValues ==
  [ usePreCachedTilesIfAvailable |-> {Box(TRUE), Box(FALSE)},
    tilingScheme |-> {Box("WebMercator")},
    rectangle |-> {[of |-> "options"]},
    credit |-> {Box("Caller credit")},
    tileDiscardPolicy |-> {[type |-> "SuppliedPolicy"]},
    tileWidth |-> {Box(512)},
    tileHeight |-> {Box(128)},
    maximumLevel |-> {Box(7)},
    layers |-> {Box(""), Box("0,1")},
    enablePickFeatures |-> {Box(TRUE), Box(FALSE)} ]

OptionNames == DOMAIN OptionValues

\* Options objects with at most MaxOptions options set.
OptionsObjects ==
  { o \in [ usePreCachedTilesIfAvailable : {Undefined} \cup OptionValues.usePreCachedTilesIfAvailable,
            tilingScheme : {Undefined} \cup OptionValues.tilingScheme,
            rectangle : {Undefined} \cup OptionValues.rectangle,
            credit : {Undefined} \cup OptionValues.credit,
            tileDiscardPolicy : {Undefined} \cup OptionValues.tileDiscardPolicy,
            tileWidth : {Undefined} \cup OptionValues.tileWidth,
            tileHeight : {Undefined} \cup OptionValues.tileHeight,
            maximumLevel : {Undefined} \cup OptionValues.maximumLevel,
            layers : {Undefined} \cup OptionValues.layers,
            enablePickFeatures : {Undefined} \cup OptionValues.enablePickFeatures ] :
      Cardinality({ n \in OptionNames : defined(o[n]) }) <= MaxOptions }

\* The tileInfo sections of a capability document.
Lods(n) == [k \in 1..n |-> [level |-> k - 1]]

TileInfos ==
  { [rows |-> Box(256), cols |-> Box(512), spatialReference |-> [wkid |-> Box(w)], lods |-> Lods(n)] :
      w \in {102100, 102113, 4326}, n \in {0, 3} }
  \cup
  { [rows |-> Box(256), cols |-> Box(512), spatialReference |-> sr, lods |-> Lods(3)] :
      sr \in {Undefined, [wkid |-> Undefined], [wkid |-> Box(3857)]} }

\* The fullExtent sections: one that lies inside the projection's range and,
\* for the web-mercator codes, one that exceeds it on every side and one
\* that lies wholly beyond its eastern and northern limit.
FullExtents ==
  { [xmin |-> -2 * NativeHalfWidth, ymin |-> -2 * NativeHalfWidth,
     xmax |-> 2 * NativeHalfWidth, ymax |-> 2 * NativeHalfWidth,
     spatialReference |-> [wkid |-> Box(102100)]],
    [xmin |-> 2 * NativeHalfWidth, ymin |-> 2 * NativeHalfWidth,
     xmax |-> 3 * NativeHalfWidth, ymax |-> 3 * NativeHalfWidth,
     spatialReference |-> [wkid |-> Box(102100)]],
    [xmin |-> -100, ymin |-> -50, xmax |-> 200, ymax |-> 60,
     spatialReference |-> [wkid |-> Box(102113)]],
    [xmin |-> -100, ymin |-> -50, xmax |-> 200, ymax |-> 60,
     spatialReference |-> [wkid |-> Box(4326)]],
    [xmin |-> -100, ymin |-> -50, xmax |-> 200, ymax |-> 60,
     spatialReference |-> [wkid |-> Box(3857)]],
    [xmin |-> -100, ymin |-> -50, xmax |-> 200, ymax |-> 60,
     spatialReference |-> Undefined] }

CapabilityDocuments ==
  [ tileInfo : {Undefined} \cup TileInfos,
    fullExtent : {Undefined} \cup FullExtents,
    copyrightText : {Undefined, Box("Copyright text")} ]

\* What fetchJsonp settles with: a document, or a transport failure, whose
\* error carries no message.
Responses ==
  { [ok |-> TRUE, data |-> d] : d \in CapabilityDocuments }
  \cup { [ok |-> FALSE, error |-> [type |-> "RequestErrorEvent", message |-> Undefined]] }

RuntimeError(message) == [type |-> "RuntimeError", message |-> message]

\* A promise handed back to the caller of requestImage or pickFeatures.
Promise == [promise |-> "pending"]

(***************************************************************************)
(* ArcGisMapServerImageryProvider: constructor and ImageryProviderBuilder  *)
(***************************************************************************)
\* The fields the constructor writes before it looks at options.url.
\* Mutant: the provider says it is ready as soon as it is constructed.
ArcGisMapServerImageryProvider_readyAtConstruction(options) ==
  LET tilingScheme == Unbox(defaultValue(options.tilingScheme, Box("Geographic")))
  IN [ _tileDiscardPolicy |-> options.tileDiscardPolicy,
       _tileWidth |-> defaultValue(options.tileWidth, Box(256)),
       _tileHeight |-> defaultValue(options.tileHeight, Box(256)),
       _maximumLevel |-> options.maximumLevel,
       _tilingScheme |-> tilingScheme,
       _useTiles |-> Unbox(defaultValue(options.usePreCachedTilesIfAvailable, Box(TRUE))),
       _rectangle |-> defaultValue(options.rectangle, tilingSchemeRectangle(tilingScheme)),
       _layers |-> options.layers,
       _credit |-> Undefined,
       enablePickFeatures |-> Unbox(defaultValue(options.enablePickFeatures, Box(TRUE))),
       _ready |-> TRUE ]

ArcGisMapServerImageryProvider(options) ==
  LET tilingScheme == Unbox(defaultValue(options.tilingScheme, Box("Geographic")))
  IN [ _tileDiscardPolicy |-> options.tileDiscardPolicy,
       _tileWidth |-> defaultValue(options.tileWidth, Box(256)),
       _tileHeight |-> defaultValue(options.tileHeight, Box(256)),
       _maximumLevel |-> options.maximumLevel,
       _tilingScheme |-> tilingScheme,
       _useTiles |-> Unbox(defaultValue(options.usePreCachedTilesIfAvailable, Box(TRUE))),
       _rectangle |-> defaultValue(options.rectangle, tilingSchemeRectangle(tilingScheme)),
       _layers |-> options.layers,
       _credit |-> Undefined,
       enablePickFeatures |-> Unbox(defaultValue(options.enablePickFeatures, Box(TRUE))),
       _ready |-> FALSE ]

ImageryProviderBuilder(options) ==
  LET tilingScheme == Unbox(defaultValue(options.tilingScheme, Box("Geographic")))
      credit == options.credit
  IN [ useTiles |-> Unbox(defaultValue(options.usePreCachedTilesIfAvailable, Box(TRUE))),
       tilingScheme |-> tilingScheme,
       rectangle |-> defaultValue(options.rectangle, tilingSchemeRectangle(tilingScheme)),
       credit |-> IF defined(credit) THEN Credit(Unbox(credit)) ELSE credit,
       tileDiscardPolicy |-> options.tileDiscardPolicy,
       tileWidth |-> defaultValue(options.tileWidth, Box(256)),
       tileHeight |-> defaultValue(options.tileHeight, Box(256)),
       maximumLevel |-> options.maximumLevel ]

(***************************************************************************)
(* buildImageResource                                                      *)
(***************************************************************************)
\* A string is truthy unless it is empty; undefined is falsy.
truthy(v) == IF defined(v) THEN Unbox(v) # "" ELSE FALSE

\* The query object of the export branch before the layers parameter; bbox
\* and size are the comma-joined lists of the code.
exportQueryBase(imageryProvider, x, y, level) ==
  LET nativeRectangle == tileXYToNativeRectangle(imageryProvider._tilingScheme, x, y, level)
      sr == IF projectionIsGeographic(imageryProvider._tilingScheme) THEN 4326 ELSE 3857
  IN [ bbox |-> <<nativeRectangle.west, nativeRectangle.south,
                  nativeRectangle.east, nativeRectangle.north>>,
       size |-> <<Unbox(imageryProvider._tileWidth), Unbox(imageryProvider._tileHeight)>>,
       format |-> "png32",
       transparent |-> TRUE,
       f |-> "image",
       bboxSR |-> sr,
       imageSR |-> sr ]

\* The query with the layers parameter of `if (imageryProvider.layers)`.
exportQuery(imageryProvider, x, y, level) ==
  LET query == exportQueryBase(imageryProvider, x, y, level)
  IN IF truthy(imageryProvider._layers)
     THEN query @@ [layers |-> <<"show:", Unbox(imageryProvider._layers)>>]
     ELSE query

\* Mutant: the tile path is produced whatever the addressing mode is.
buildImageResource_alwaysTile(imageryProvider, x, y, level) ==
  [url |-> <<"tile", level, y, x>>, queryParameters |-> <<>>]

\* The url is the list of its path segments; queryParameters holds the
\* parameters this function adds (none for a tile path).
buildImageResource(imageryProvider, x, y, level) ==
  IF imageryProvider._useTiles
  THEN [url |-> <<"tile", level, y, x>>, queryParameters |-> <<>>]
  ELSE [url |-> <<"export">>, queryParameters |-> exportQuery(imageryProvider, x, y, level)]

\* The usingPrecachedTiles getter.
usingPrecachedTiles(provider) == provider._useTiles

(***************************************************************************)
(* ImageryProviderBuilder.prototype.build                                  *)
(***************************************************************************)
PixelsToCheck == << <<0, 0>>, <<200, 20>>, <<20, 200>>, <<80, 110>>, <<160, 130>> >>

DiscardMissingTileImagePolicy(missingImageUrl) ==
  [ type |-> "DiscardMissingTileImagePolicy",
    missingImageUrl |-> missingImageUrl,
    pixelsToCheck |-> PixelsToCheck,
    disableCheckIfAllPixelsAreTransparent |-> TRUE ]

\* The eight assignments build starts with.
buildFields(builder, provider) ==
  [provider EXCEPT
     !._useTiles = builder.useTiles,
     !._tilingScheme = builder.tilingScheme,
     !._rectangle = builder.rectangle,
     !._credit = builder.credit,
     !._tileDiscardPolicy = builder.tileDiscardPolicy,
     !._tileWidth = builder.tileWidth,
     !._tileHeight = builder.tileHeight,
     !._maximumLevel = builder.maximumLevel]

\* Mutant: the default policy is installed whenever none was supplied, also
\* for a server without pre-cached tiles.
build_defaultPolicyAlways(builder, provider) ==
  LET written == buildFields(builder, provider)
      policy == IF ~defined(builder.tileDiscardPolicy)
                THEN DiscardMissingTileImagePolicy(<<"tile">>)
                ELSE written._tileDiscardPolicy
  IN [written EXCEPT !._tileDiscardPolicy = policy, !._ready = TRUE]

build(builder, provider) ==
  LET written == buildFields(builder, provider)
      policy == IF builder.useTiles /\ ~defined(builder.tileDiscardPolicy)
                THEN DiscardMissingTileImagePolicy(
                       buildImageResource(written, 0, 0, Unbox(builder.maximumLevel)).url)
                ELSE written._tileDiscardPolicy
  IN [written EXCEPT !._tileDiscardPolicy = policy, !._ready = TRUE]

(***************************************************************************)
(* metadataSuccess                                                         *)
(***************************************************************************)
\* Each step gives the builder as the step leaves it and the error it throws
\* (undefined when it completes): what was assigned before a throw stays.

\* Mutant: the EPSG code 3857 of the web-mercator projection is accepted too.
tilingSchemeOfWkid_accepts3857(wkid) ==
  IF wkid = Box(102100) \/ wkid = Box(102113) \/ wkid = Box(3857) THEN Box("WebMercator")
  ELSE IF wkid = Box(4326) THEN Box("Geographic")
  ELSE Undefined

\* The tiling scheme (boxed) the if / else-if chain on
\* tileInfo.spatialReference.wkid selects; undefined stands for its throwing
\* else branch.
tilingSchemeOfWkid(wkid) ==
  IF wkid = Box(102100) \/ wkid = Box(102113) THEN Box("WebMercator")
  ELSE IF wkid = Box(4326) THEN Box("Geographic")
  ELSE Undefined

\* Mutant: the tile size the caller supplied is kept.
metadataSuccess_tileInfo_keepsCallerSize(data, builder) ==
  LET tileInfo == data.tileInfo
      sized == builder
  IN IF ~defined(tileInfo.spatialReference)
     THEN [builder |-> sized,
           error |-> [type |-> "TypeError",
                      message |-> <<"Cannot read properties of undefined (reading 'wkid')">>]]
     ELSE LET wkid == tileInfo.spatialReference.wkid
              tilingScheme == tilingSchemeOfWkid(wkid)
          IN IF defined(tilingScheme)
             THEN [builder |-> [sized EXCEPT !.tilingScheme = Unbox(tilingScheme)], error |-> Undefined]
             ELSE [builder |-> sized,
                   error |-> RuntimeError(<<"Tile spatial reference WKID ", wkid,
                                            " is not supported.">>)]

\* tileWidth, tileHeight and the tiling scheme.
metadataSuccess_tileInfo(data, builder) ==
  LET tileInfo == data.tileInfo
      sized == [builder EXCEPT !.tileWidth = tileInfo.rows, !.tileHeight = tileInfo.cols]
  IN IF ~defined(tileInfo.spatialReference)
     THEN [builder |-> sized,
           error |-> [type |-> "TypeError",
                      message |-> <<"Cannot read properties of undefined (reading 'wkid')">>]]
     ELSE LET wkid == tileInfo.spatialReference.wkid
              tilingScheme == tilingSchemeOfWkid(wkid)
          IN IF defined(tilingScheme)
             THEN [builder |-> [sized EXCEPT !.tilingScheme = Unbox(tilingScheme)], error |-> Undefined]
             ELSE [builder |-> sized,
                   error |-> RuntimeError(<<"Tile spatial reference WKID ", wkid,
                                            " is not supported.">>)]

\* Mutant: a fullExtent with an unsupported code is skipped like one without
\* a code.
metadataSuccess_fullExtent_skipsUnknown(data, builder) ==
  IF defined(data.fullExtent)
  THEN [builder |-> builder, error |-> Undefined]
  ELSE [builder |-> [builder EXCEPT !.rectangle = tilingSchemeRectangle(builder.tilingScheme)],
        error |-> Undefined]

\* The rectangle.  A web-mercator extent is clamped to +-pi * maximumRadius
\* and unprojected; the rectangle records the two points handed to unproject.
metadataSuccess_fullExtent(data, builder) ==
  IF defined(data.fullExtent)
  THEN LET extent == data.fullExtent
       IN IF defined(extent.spatialReference)
          THEN IF defined(extent.spatialReference.wkid)
               THEN LET wkid == extent.spatialReference.wkid
                    IN IF wkid = Box(102100) \/ wkid = Box(102113)
                       THEN [builder |->
                               [builder EXCEPT !.rectangle =
                                  [of |-> "unproject",
                                   sw |-> <<Max(extent.xmin, -NativeHalfWidth),
                                            Max(extent.ymin, -NativeHalfWidth)>>,
                                   ne |-> <<Min(extent.xmax, NativeHalfWidth),
                                            Min(extent.ymax, NativeHalfWidth)>>]],
                             error |-> Undefined]
                       ELSE IF wkid = Box(4326)
                       THEN [builder |->
                               [builder EXCEPT !.rectangle =
                                  [of |-> "fromDegrees",
                                   west |-> extent.xmin, south |-> extent.ymin,
                                   east |-> extent.xmax, north |-> extent.ymax]],
                             error |-> Undefined]
                       ELSE [builder |-> builder,
                             error |-> RuntimeError(<<"fullExtent.spatialReference WKID ", wkid,
                                                      " is not supported.">>)]
               ELSE [builder |-> builder, error |-> Undefined]
          ELSE [builder |-> builder, error |-> Undefined]
  ELSE [builder |-> [builder EXCEPT !.rectangle = tilingSchemeRectangle(builder.tilingScheme)],
        error |-> Undefined]

\* The credit from copyrightText.
metadataSuccess_credit(data, builder) ==
  IF truthy(data.copyrightText)
  THEN [builder EXCEPT !.credit = Credit(Unbox(data.copyrightText))]
  ELSE builder

metadataSuccess(data, imageryProviderBuilder) ==
  IF ~defined(data.tileInfo)
  THEN [builder |-> metadataSuccess_credit(data, [imageryProviderBuilder EXCEPT !.useTiles = FALSE]),
        error |-> Undefined]
  ELSE LET tiles == metadataSuccess_tileInfo(data, imageryProviderBuilder)
       IN IF defined(tiles.error) THEN tiles
          ELSE LET levelled == [tiles.builder EXCEPT
                                  !.maximumLevel = Box(Len(data.tileInfo.lods) - 1)]
                   extent == metadataSuccess_fullExtent(data, levelled)
               IN IF defined(extent.error) THEN extent
                  ELSE [builder |-> metadataSuccess_credit(
                                      data, [extent.builder EXCEPT !.useTiles = TRUE]),
                        error |-> Undefined]

(***************************************************************************)
(* metadataFailure                                                         *)
(***************************************************************************)
\* The message of the RuntimeError metadataFailure throws.
metadataFailureMessage(resourceUrl, error) ==
  <<"An error occurred while accessing ", resourceUrl>>
    \o (IF defined(error)
        THEN (IF defined(error.message) THEN <<": ", error.message>> ELSE <<>>)
        ELSE <<>>)

\* TileProviderError.reportError raises the event it is given, if any:
\* requestMetadata hands metadataFailure a provider on the constructor path
\* and none on the fromUrl path.
reportError(providerGiven, errorEvents, message) ==
  IF providerGiven THEN Append(errorEvents, message) ELSE errorEvents

(***************************************************************************)
(* pickFeatures                                                            *)
(***************************************************************************)
\* The call with picking enabled: the identify query that is fetched.
identifyQuery(provider, x, y, level, longitude, latitude) ==
  LET rectangle == tileXYToNativeRectangle(provider._tilingScheme, x, y, level)
      geographic == projectionIsGeographic(provider._tilingScheme)
      horizontal == IF geographic THEN [toDegrees |-> longitude]
                    ELSE [project |-> <<longitude, latitude>>, coordinate |-> "x"]
      vertical == IF geographic THEN [toDegrees |-> latitude]
                  ELSE [project |-> <<longitude, latitude>>, coordinate |-> "y"]
  IN [ f |-> "json",
       tolerance |-> 2,
       geometryType |-> "esriGeometryPoint",
       geometry |-> <<horizontal, vertical>>,
       mapExtent |-> <<rectangle.west, rectangle.south, rectangle.east, rectangle.north>>,
       imageDisplay |-> <<Unbox(provider._tileWidth), Unbox(provider._tileHeight), 96>>,
       sr |-> IF geographic THEN "4326" ELSE "3857",
       layers |-> IF defined(provider._layers)
                  THEN <<"visible", ":", Unbox(provider._layers)>> ELSE <<"visible">> ]

\* Mutant: the flag is taken from the options the provider was built with.
pickFeatures_flagOfOptions(provider, x, y, level, longitude, latitude) ==
  IF ~Unbox(defaultValue(agOptions.enablePickFeatures, Box(TRUE)))
  THEN [result |-> Undefined, fetched |-> FALSE, resource |-> Undefined]
  ELSE [result |-> Promise, fetched |-> TRUE,
        resource |-> [url |-> <<"identify">>,
                      queryParameters |->
                        identifyQuery(provider, x, y, level, longitude, latitude)]]

\* What the call returns, whether it fetched, and the resource it fetched.
pickFeatures(provider, x, y, level, longitude, latitude) ==
  IF ~provider.enablePickFeatures
  THEN [result |-> Undefined, fetched |-> FALSE, resource |-> Undefined]
  ELSE [result |-> Promise, fetched |-> TRUE,
        resource |-> [url |-> <<"identify">>,
                      queryParameters |->
                        identifyQuery(provider, x, y, level, longitude, latitude)]]

(***************************************************************************)
(* pickFeatures: the continuation on the identify response                 *)
(***************************************************************************)
\* new ImageryLayerFeatureInfo(): every field undefined.
ImageryLayerFeatureInfo ==
  [ name |-> Undefined, description |-> Undefined, position |-> Undefined,
    data |-> Undefined, properties |-> Undefined ]

\* ImageryLayerFeatureInfo.prototype.configureDescriptionFromProperties
configureDescriptionFromProperties(featureInfo, properties) ==
  [featureInfo EXCEPT !.description = [describes |-> properties]]

\* A wkid is truthy unless it is undefined or 0.
truthyWkid(geometry) ==
  IF defined(geometry.spatialReference)
  THEN IF defined(geometry.spatialReference.wkid)
       THEN Unbox(geometry.spatialReference.wkid) # 0
       ELSE FALSE
  ELSE FALSE

\* Mutant: the coordinates of any geometry are used, whatever its type.
featurePosition_anyGeometryType(feature) ==
  IF defined(feature.geometry)
  THEN LET wkid == IF truthyWkid(feature.geometry)
                   THEN Unbox(feature.geometry.spatialReference.wkid) ELSE 4326
           xyz == <<feature.geometry.x, feature.geometry.y, feature.geometry.z>>
       IN IF wkid = 4326 \/ wkid = 4283
          THEN [fromDegrees |-> xyz]
          ELSE IF wkid = 102100 \/ wkid = 900913 \/ wkid = 3857
          THEN [unproject |-> xyz]
          ELSE Undefined
  ELSE Undefined

\* The position of a feature: Cartographic.fromDegrees or
\* WebMercatorProjection.unproject of the point's coordinates, or undefined.
featurePosition(feature) ==
  IF feature.geometryType = "esriGeometryPoint" /\ defined(feature.geometry)
  THEN LET wkid == IF truthyWkid(feature.geometry)
                   THEN Unbox(feature.geometry.spatialReference.wkid) ELSE 4326
           xyz == <<feature.geometry.x, feature.geometry.y, feature.geometry.z>>
       IN IF wkid = 4326 \/ wkid = 4283
          THEN [fromDegrees |-> xyz]
          ELSE IF wkid = 102100 \/ wkid = 900913 \/ wkid = 3857
          THEN [unproject |-> xyz]
          ELSE Undefined
  ELSE Undefined

\* The body of the loop over json.results.
featureInfoOf(feature) ==
  LET named == [ImageryLayerFeatureInfo EXCEPT
                  !.data = feature, !.name = feature.value, !.properties = feature.attributes]
      described == configureDescriptionFromProperties(named, feature.attributes)
  IN [described EXCEPT !.position = featurePosition(feature)]

\* The function handed to fetchJson().then.
pickFeatures_then(json) ==
  IF ~defined(json.results)
  THEN <<>>
  ELSE [ i \in DOMAIN json.results |-> featureInfoOf(json.results[i]) ]

(***************************************************************************)
(* The ArcGIS machine                                                      *)
(***************************************************************************)
Pending == [state |-> "pending"]

\* fromUrl resolves to the provider, _readyPromise to true.
Fulfilled == [state |-> "fulfilled"]

Rejected(error) == [state |-> "rejected", error |-> error]

NoCall == [op |-> "none"]

ArcGisInit ==
  /\ agPc = "start"
  /\ agPath \in {"fromUrl", "constructor"}
  /\ agOptions \in OptionsObjects
  /\ agResponse = Undefined
  /\ agBuilder = Undefined
  /\ agProvider = Undefined
  /\ agOutcome = Pending
  /\ agErrorEvents = <<>>
  /\ agFetches = 0
  /\ agCall = NoCall

ArcGisIdle ==
  /\ agPc = "idle"
  /\ agPath = "none"
  /\ agOptions = Undefined
  /\ agResponse = Undefined
  /\ agBuilder = Undefined
  /\ agProvider = Undefined
  /\ agOutcome = Pending
  /\ agErrorEvents = <<>>
  /\ agFetches = 0
  /\ agCall = NoCall

\* Mutant: the capability query is issued whatever the caller chose for
\* usePreCachedTilesIfAvailable.
Construct_alwaysQueries ==
  /\ agPc = "start"
  /\ agBuilder' = ImageryProviderBuilder(agOptions)
  /\ agFetches' = agFetches + 1
  /\ agProvider' = ArcGisMapServerImageryProvider(agOptions)
  /\ agPc' = "awaiting"
  /\ agOutcome' = Pending
  /\ UNCHANGED <<agPath, agOptions, agResponse, agErrorEvents, agCall>>

\* new ArcGisMapServerImageryProvider(options) with options.url, or
\* ArcGisMapServerImageryProvider.fromUrl(url, options), up to the point
\* where the capability query is in flight or, when no query is needed, to
\* the end of build.
Construct ==
  /\ agPc = "start"
  /\ LET provider == ArcGisMapServerImageryProvider(agOptions)
         builder == ImageryProviderBuilder(agOptions)
         useTiles == IF agPath = "fromUrl"
                     THEN Unbox(defaultValue(agOptions.usePreCachedTilesIfAvailable, Box(TRUE)))
                     ELSE builder.useTiles
     IN /\ agBuilder' = builder
        /\ IF useTiles
           THEN /\ agFetches' = agFetches + 1
                /\ agProvider' = provider
                /\ agPc' = "awaiting"
                /\ agOutcome' = Pending
           ELSE /\ agFetches' = agFetches
                /\ agProvider' = build(builder, provider)
                /\ agPc' = "ready"
                /\ agOutcome' = Fulfilled
  /\ UNCHANGED <<agPath, agOptions, agResponse, agErrorEvents, agCall>>

\* requestMetadata resumes with what fetchJsonp settled with: metadataSuccess
\* on a document, metadataFailure on a rejection or when metadataSuccess throws.
MetadataResponse(responses) ==
  /\ agPc = "awaiting"
  /\ \E response \in responses :
       LET outcome == IF response.ok
                      THEN metadataSuccess(response.data, agBuilder)
                      ELSE [builder |-> agBuilder, error |-> response.error]
           message == metadataFailureMessage(ResourceUrl, outcome.error)
       IN /\ agResponse' = response
          /\ agBuilder' = outcome.builder
          /\ IF defined(outcome.error)
             THEN /\ agErrorEvents' = reportError(agPath = "constructor", agErrorEvents, message)
                  /\ agOutcome' = Rejected(RuntimeError(message))
                  /\ agPc' = "failed"
             ELSE /\ agErrorEvents' = agErrorEvents
                  /\ agOutcome' = agOutcome
                  /\ agPc' = "resolved"
  /\ UNCHANGED <<agPath, agOptions, agProvider, agFetches, agCall>>

\* The continuation after requestMetadata: imageryProviderBuilder.build.
Build ==
  /\ agPc = "resolved"
  /\ agProvider' = build(agBuilder, agProvider)
  /\ agOutcome' = Fulfilled
  /\ agPc' = "ready"
  /\ UNCHANGED <<agPath, agOptions, agResponse, agBuilder, agErrorEvents, agFetches, agCall>>

\* The tiles the model requests and picks in.
RequestTiles ==
  { [x |-> 2, y |-> 3, level |-> 5], [x |-> 1, y |-> 0, level |-> 1] }

\* provider.requestImage(x, y, level): ImageryProvider.loadImage gives a
\* promise, or undefined when the request is deferred.
RequestImage ==
  /\ agPc = "ready"
  /\ \E tile \in RequestTiles, deferred \in BOOLEAN :
       agCall' = [op |-> "requestImage", tile |-> tile,
                  resource |-> buildImageResource(agProvider, tile.x, tile.y, tile.level),
                  result |-> IF deferred THEN Undefined ELSE Promise,
                  fetched |-> ~deferred]
  /\ UNCHANGED <<agPc, agPath, agOptions, agResponse, agBuilder, agProvider, agOutcome,
                 agErrorEvents, agFetches>>

\* provider.pickFeatures(x, y, level, longitude, latitude)
PickFeatures ==
  /\ agPc = "ready"
  /\ \E tile \in RequestTiles :
       LET picked == pickFeatures(agProvider, tile.x, tile.y, tile.level, "longitude", "latitude")
       IN agCall' = [op |-> "pickFeatures", tile |-> tile,
                     resource |-> picked.resource,
                     result |-> picked.result,
                     fetched |-> picked.fetched]
  /\ UNCHANGED <<agPc, agPath, agOptions, agResponse, agBuilder, agProvider, agOutcome,
                 agErrorEvents, agFetches>>

\* provider.enablePickFeatures = value
SetEnablePickFeatures ==
  /\ agPc = "ready"
  /\ \E value \in BOOLEAN :
       /\ value # agProvider.enablePickFeatures
       /\ agProvider' = [agProvider EXCEPT !.enablePickFeatures = value]
  /\ UNCHANGED <<agPc, agPath, agOptions, agResponse, agBuilder, agOutcome,
                 agErrorEvents, agFetches, agCall>>

\* The geometries of the records of an identify response.
PointGeometry(spatialReference) ==
  [x |-> 10, y |-> 20, z |-> 0, spatialReference |-> spatialReference]

\* The records: a polygon, a point without geometry, and points whose
\* geometry has no spatialReference, the wkid 0, 4283, 3857 and 102113.
Features ==
  { [geometryType |-> "esriGeometryPolygon", value |-> "polygon", attributes |-> "a",
     geometry |-> PointGeometry([wkid |-> Box(4326)])],
    [geometryType |-> "esriGeometryPoint", value |-> "bare", attributes |-> "a",
     geometry |-> Undefined] }
  \cup
  { [geometryType |-> "esriGeometryPoint", value |-> "point", attributes |-> "a",
     geometry |-> PointGeometry(spatialReference)] :
      spatialReference \in {Undefined, [wkid |-> Box(0)], [wkid |-> Box(4283)],
                            [wkid |-> Box(3857)], [wkid |-> Box(102113)]} }

\* What the identify fetch settles with: a document with or without
\* results, or a transport failure.
IdentifyResponses ==
  { [ok |-> TRUE, json |-> [results |-> results]] :
      results \in {Undefined} \cup SeqsUpTo(Features, MaxFeatures) }
  \cup { [ok |-> FALSE, error |-> [type |-> "RequestErrorEvent", message |-> Undefined]] }

\* The identify fetch of the last pickFeatures call settles and the
\* function handed to then runs.
IdentifyResponse ==
  /\ agPc = "ready"
  /\ agCall.op = "pickFeatures"
  /\ agCall.fetched
  /\ \E response \in IdentifyResponses :
       agCall' = [op |-> "pickFeatures.then", tile |-> agCall.tile,
                  resource |-> agCall.resource,
                  response |-> response,
                  result |-> IF response.ok
                             THEN [state |-> "fulfilled", value |-> pickFeatures_then(response.json)]
                             ELSE Rejected(response.error),
                  fetched |-> TRUE]
  /\ UNCHANGED <<agPc, agPath, agOptions, agResponse, agBuilder, agProvider, agOutcome,
                 agErrorEvents, agFetches>>

\* The options pickFeatures reads, and a server without tiles.
PickOptionsObjects ==
  { o \in OptionsObjects :
      \A n \in OptionNames \ {"enablePickFeatures", "tilingScheme", "layers"} : o[n] = Undefined }

DynamicResponses ==
  { r \in Responses :
      r.ok => (/\ r.data.tileInfo = Undefined
               /\ r.data.fullExtent = Undefined
               /\ r.data.copyrightText = Undefined) }

\* The documents that differ in their tileInfo section only.
TileInfoResponses ==
  { r \in Responses :
      r.ok => (~defined(r.data.fullExtent) /\ ~defined(r.data.copyrightText)) }

(***************************************************************************)
(* BingMapsImageryProvider: constructor, ImageryProviderBuilder, metadata  *)
(***************************************************************************)
\* The fields of the constructor that build writes later, and those the
\* per-tile functions read: options.culture is never given, and the discard
\* policy defaults to a DiscardEmptyTilePolicy.
BingMapsImageryProvider(options) ==
  [ _culture |-> "",
    _tileDiscardPolicy |-> defaultValue(options.tileDiscardPolicy, [type |-> "DiscardEmptyTilePolicy"]),
    _tileWidth |-> Undefined,
    _tileHeight |-> Undefined,
    _maximumLevel |-> Undefined,
    _imageUrlTemplate |-> Undefined,
    _imageUrlSubdomains |-> Undefined,
    _attributionList |-> Undefined,
    _ready |-> FALSE ]

Bing_ImageryProviderBuilder(options) ==
  [ tileWidth |-> Undefined,
    tileHeight |-> Undefined,
    maximumLevel |-> Undefined,
    imageUrlSubdomains |-> Undefined,
    imageUrlTemplate |-> Undefined,
    attributionList |-> Undefined ]

\* CesiumMath.toRadians
toRadians(degrees) == [toRadians |-> degrees]

\* The body of build's loop for one attribution: the credit is created and
\* every bbox [south, west, north, east] becomes a Rectangle in radians.  An
\* attribution that has its credit already (cached metadata) is left as it is.
Bing_buildAttribution(attribution) ==
  IF "credit" \in DOMAIN attribution
  THEN attribution
  ELSE [ attribution |-> attribution.attribution,
         credit |-> Credit(attribution.attribution),
         coverageAreas |->
           [ k \in DOMAIN attribution.coverageAreas |->
               LET area == attribution.coverageAreas[k]
               IN [area EXCEPT !.bbox = Rectangle(toRadians(area.bbox[2]), toRadians(area.bbox[1]),
                                                  toRadians(area.bbox[4]), toRadians(area.bbox[3]))] ] ]

\* Mutant: the loop leaves after its first attribution.
Bing_buildLoop_firstEntryOnly(list, attributionIndex) ==
  IF attributionIndex < Len(list) /\ attributionIndex < 1
  THEN [list EXCEPT
          ![attributionIndex + 1] = Bing_buildAttribution(list[attributionIndex + 1])]
  ELSE list

\* build's loop over the attribution list, which changes the entries of the
\* array in place: it breaks at the first attribution whose credit is a
\* Credit already.  The value is the array as the loop leaves it.
RECURSIVE Bing_buildLoop(_, _)
Bing_buildLoop(list, attributionIndex) ==
  IF attributionIndex < Len(list)
  THEN IF "credit" \in DOMAIN list[attributionIndex + 1]
       THEN list
       ELSE Bing_buildLoop(
              [list EXCEPT
                 ![attributionIndex + 1] = Bing_buildAttribution(list[attributionIndex + 1])],
              attributionIndex + 1)
  ELSE list

\* ImageryProviderBuilder.prototype.build of the Bing provider; an undefined
\* attribution list becomes the empty array.  builder.attributionList is the
\* array of the metadata document as it is when build runs.
Bing_build(builder, provider) ==
  [provider EXCEPT
     !._tileWidth = builder.tileWidth,
     !._tileHeight = builder.tileHeight,
     !._maximumLevel = builder.maximumLevel,
     !._imageUrlSubdomains = builder.imageUrlSubdomains,
     !._imageUrlTemplate = builder.imageUrlTemplate,
     !._attributionList = Bing_buildLoop(builder.attributionList, 0),
     !._ready = TRUE]

\* A Rectangle in radians on the grid the tiles are measured on: west and
\* east in quarters of the world from the antimeridian, south and north by
\* the latitudes of the tile edges of level 1 (0, about 66.5 and 85.05
\* degrees); what lies beyond the edge of the grid is on its last line.
gridX(radians) ==
  LET degrees == radians.toRadians
  IN IF degrees <= -180 THEN 0 ELSE IF degrees >= 180 THEN WorldSize
     ELSE (degrees + 180) \div 90

gridY(radians) ==
  LET degrees == radians.toRadians
  IN IF degrees <= -85 THEN 0 ELSE IF degrees < 0 THEN 1 ELSE IF degrees = 0 THEN 2
     ELSE IF degrees < 85 THEN 3 ELSE WorldSize

onTileGrid(list) ==
  [ k \in DOMAIN list |->
      [list[k] EXCEPT
         !.coverageAreas =
           [ a \in DOMAIN @ |->
               [@[a] EXCEPT !.bbox = Rectangle(gridX(@.west), gridY(@.south),
                                               gridX(@.east), gridY(@.north))] ]] ]

\* BingMapsImageryProvider.prototype.getTileCredits of a built provider.
Bing_getTileCredits(provider, x, y, level) ==
  getTileCredits(onTileGrid(provider._attributionList), x, y, level)

\* metadataSuccess of the Bing provider: the builder as it leaves it and the
\* error it throws (undefined when it completes).
Bing_metadataSuccess(data, imageryProviderBuilder) ==
  IF Len(data.resourceSets) # 1
  THEN [builder |-> imageryProviderBuilder,
        error |-> RuntimeError(<<"metadata does not specify one resource in resourceSets">>)]
  ELSE LET resource == data.resourceSets[1].resources[1]
       IN [builder |->
             [imageryProviderBuilder EXCEPT
                !.tileWidth = resource.imageWidth,
                !.tileHeight = resource.imageHeight,
                !.maximumLevel = Box(Unbox(resource.zoomMax) - 1),
                !.imageUrlSubdomains = resource.imageUrlSubdomains,
                !.imageUrlTemplate = resource.imageUrl,
                !.attributionList = resource.imageryProviders],
           error |-> Undefined]

(***************************************************************************)
(* The metadata machine: values                                            *)
(***************************************************************************)
\* The servers a provider is created from.  The ArcGIS constructions all
\* use the first one: requestMetadata treats every endpoint alike there.
Endpoints == {"https://a.test/", "https://b.test/"}

ArcGis_Endpoint == "https://a.test/"

\* metadataResource.url of the Bing provider for the default map style: the
\* cache key of requestMetadata.
Bing_metadataResourceUrl(endpoint) == <<endpoint, "REST/v1/Imagery/Metadata/", "Aerial">>

CacheKeys == { Bing_metadataResourceUrl(endpoint) : endpoint \in Endpoints }

\* The options objects of the metadata machine: options.url and
\* options.usePreCachedTilesIfAvailable vary, every other option is left out.
NoOptions == [ n \in OptionNames |-> Undefined ]

MetadataOptions ==
  { [url |-> url] @@ [NoOptions EXCEPT !.usePreCachedTilesIfAvailable = usePreCachedTilesIfAvailable] :
      url \in {Undefined} \cup { Box(endpoint) : endpoint \in Endpoints },
      usePreCachedTilesIfAvailable \in {Undefined, Box(FALSE)} }

\* A transport failure of fetchJsonp: the error carries no message.
RequestErrorEvent == [type |-> "RequestErrorEvent", message |-> Undefined]

\* What an ArcGIS capability query settles with: a tiled document, one whose
\* fullExtent code is unsupported after tileInfo was accepted, or a transport
\* failure.
ArcGis_tileInfo(wkid, n) ==
  [rows |-> Box(256), cols |-> Box(512), spatialReference |-> [wkid |-> Box(wkid)], lods |-> Lods(n)]

ArcGis_MetadataResponses ==
  { [ok |-> TRUE, data |-> [tileInfo |-> tileInfo, fullExtent |-> Undefined, copyrightText |-> Undefined]] :
      tileInfo \in {ArcGis_tileInfo(102100, 3)} }
  \cup
  { [ok |-> TRUE,
     data |-> [tileInfo |-> ArcGis_tileInfo(102100, 3),
               fullExtent |-> [xmin |-> -100, ymin |-> -50, xmax |-> 200, ymax |-> 60,
                               spatialReference |-> [wkid |-> Box(3857)]],
               copyrightText |-> Undefined]],
    [ok |-> FALSE, error |-> RequestErrorEvent] }

\* What a Bing metadata query settles with: resourceSets of length 1 or 0,
\* or a transport failure.
Bing_resourceSet(zoomMax) ==
  [ resources |->
      << [ imageWidth |-> Box(256),
           imageHeight |-> Box(256),
           zoomMax |-> Box(zoomMax),
           imageUrlSubdomains |-> <<"t0", "t1">>,
           imageUrl |-> Box("{subdomain}/{quadkey}"),
           imageryProviders |->
             << [ attribution |-> "Provider",
                  coverageAreas |-> << [bbox |-> <<-90, -180, 90, 180>>,
                                        zoomMin |-> 1, zoomMax |-> 21] >> ],
                [ attribution |-> "Regional",
                  coverageAreas |-> << [bbox |-> <<0, -180, 90, 0>>,
                                        zoomMin |-> 2, zoomMax |-> 21],
                                       [bbox |-> <<-90, 0, 0, 180>>,
                                        zoomMin |-> 1, zoomMax |-> 1] >> ] >> ] >> ]

Bing_MetadataResponses ==
  { [ok |-> TRUE, data |-> [resourceSets |-> resourceSets]] :
      resourceSets \in { <<>>, <<Bing_resourceSet(21)>> } }
  \cup { [ok |-> FALSE, error |-> RequestErrorEvent] }

(***************************************************************************)
(* The metadata machine: constructions                                     *)
(***************************************************************************)
\* The synchronous part of a construction threads a record through its
\* calls: the provider object, the number of build calls on it, its two
\* promises, and the operations, fetches and cache of the process.

\* Mutant: a query for the same resource that is still in flight is shared.
ArcGis_requestMetadata_sharesInFlight(st, c, endpoint, imageryProviderBuilder, providerGiven) ==
  LET inFlight == { f \in DOMAIN st.fetches :
                      /\ st.fetches[f].kind = "ArcGis"
                      /\ st.fetches[f].url = <<endpoint, "f=json">>
                      /\ ~defined(st.fetches[f].response) }
      op == [kind |-> "ArcGis", construction |-> c, provider |-> providerGiven,
             resourceUrl |-> <<endpoint>>, fetch |-> Len(st.fetches) + 1,
             builder |-> imageryProviderBuilder, pc |-> "awaiting"]
  IN IF inFlight # {}
     THEN [st EXCEPT !.operations = Append(@, [op EXCEPT !.fetch = CHOOSE f \in inFlight : TRUE])]
     ELSE [st EXCEPT
             !.fetches = Append(@, [kind |-> "ArcGis", construction |-> c,
                                    url |-> <<endpoint, "f=json">>, response |-> Undefined]),
             !.operations = Append(@, op)]

\* requestMetadata of the ArcGIS provider up to its await: fetchJsonp on the
\* derived resource, every time.
ArcGis_requestMetadata(st, c, endpoint, imageryProviderBuilder, providerGiven) ==
  [st EXCEPT
     !.fetches = Append(@, [kind |-> "ArcGis", construction |-> c,
                            url |-> <<endpoint, "f=json">>, response |-> Undefined]),
     !.operations = Append(@, [kind |-> "ArcGis", construction |-> c,
                               provider |-> providerGiven,
                               resourceUrl |-> <<endpoint>>,
                               fetch |-> Len(st.fetches) + 1,
                               builder |-> imageryProviderBuilder,
                               pc |-> "awaiting"])]

\* Mutant: a cached promise that was rejected is replaced by a new fetch.
Bing_requestMetadata_refetchesRejected(st, c, endpoint, imageryProviderBuilder, providerGiven) ==
  LET cacheKey == Bing_metadataResourceUrl(endpoint)
      cached == st.cache[cacheKey]
      rejected == IF defined(cached)
                  THEN IF defined(st.fetches[Unbox(cached)].response)
                       THEN ~st.fetches[Unbox(cached)].response.ok
                       ELSE FALSE
                  ELSE FALSE
      fetched == IF ~defined(cached) \/ rejected
                 THEN [st EXCEPT
                         !.fetches = Append(@, [kind |-> "Bing", construction |-> c,
                                                url |-> cacheKey, response |-> Undefined]),
                         !.cache[cacheKey] = Box(Len(st.fetches) + 1)]
                 ELSE st
  IN [fetched EXCEPT
        !.operations = Append(@, [kind |-> "Bing", construction |-> c,
                                  provider |-> providerGiven,
                                  resourceUrl |-> cacheKey,
                                  fetch |-> Unbox(fetched.cache[cacheKey]),
                                  builder |-> imageryProviderBuilder,
                                  pc |-> "awaiting"])]

\* Mutant: the promise is fetched but never stored in the cache.
Bing_requestMetadata_neverCaches(st, c, endpoint, imageryProviderBuilder, providerGiven) ==
  LET cacheKey == Bing_metadataResourceUrl(endpoint)
  IN [st EXCEPT
        !.fetches = Append(@, [kind |-> "Bing", construction |-> c,
                               url |-> cacheKey, response |-> Undefined]),
        !.operations = Append(@, [kind |-> "Bing", construction |-> c,
                                  provider |-> providerGiven,
                                  resourceUrl |-> cacheKey,
                                  fetch |-> Len(st.fetches) + 1,
                                  builder |-> imageryProviderBuilder,
                                  pc |-> "awaiting"])]

\* requestMetadata of the Bing provider up to its await: the promise of the
\* cache if there is one, else fetchJsonp, whose promise is cached.
Bing_requestMetadata(st, c, endpoint, imageryProviderBuilder, providerGiven) ==
  LET cacheKey == Bing_metadataResourceUrl(endpoint)
      fetched == IF ~defined(st.cache[cacheKey])
                 THEN [st EXCEPT
                         !.fetches = Append(@, [kind |-> "Bing", construction |-> c,
                                                url |-> cacheKey, response |-> Undefined]),
                         !.cache[cacheKey] = Box(Len(st.fetches) + 1)]
                 ELSE st
  IN [fetched EXCEPT
        !.operations = Append(@, [kind |-> "Bing", construction |-> c,
                                  provider |-> providerGiven,
                                  resourceUrl |-> cacheKey,
                                  fetch |-> Unbox(fetched.cache[cacheKey]),
                                  builder |-> imageryProviderBuilder,
                                  pc |-> "awaiting"])]

\* new ArcGisMapServerImageryProvider(options), with its options.url block,
\* followed on the fromUrl path by the rest of fromUrl up to its await or,
\* when no metadata is needed, to its return.
ArcGis_construct(st, c, path, url, options) ==
  LET constructed == [st EXCEPT !.provider = ArcGisMapServerImageryProvider(options)]
      builder == ImageryProviderBuilder(options)
      withUrlOption ==
        IF defined(options.url)
        THEN IF builder.useTiles
             THEN [ArcGis_requestMetadata(constructed, c, Unbox(options.url), builder, TRUE)
                     EXCEPT !._readyPromise = Pending]
             ELSE [constructed EXCEPT !.provider = build(builder, @),
                                      !.builds = @ + 1,
                                      !._readyPromise = Fulfilled]
        ELSE constructed
      useTiles == Unbox(defaultValue(options.usePreCachedTilesIfAvailable, Box(TRUE)))
  IN IF path = "fromUrl"
     THEN IF useTiles
          THEN [ArcGis_requestMetadata(withUrlOption, c, url, builder, FALSE)
                  EXCEPT !.fromUrl = Pending]
          ELSE [withUrlOption EXCEPT !.provider = build(builder, @),
                                     !.builds = @ + 1,
                                     !.fromUrl = Fulfilled]
     ELSE withUrlOption

\* new BingMapsImageryProvider(options), with its options.url block, followed
\* on the fromUrl path by the rest of fromUrl up to its await.
Bing_construct(st, c, path, url, options) ==
  LET constructed == [st EXCEPT !.provider = BingMapsImageryProvider(options)]
      builder == Bing_ImageryProviderBuilder(options)
      withUrlOption ==
        IF defined(options.url)
        THEN [Bing_requestMetadata(constructed, c, Unbox(options.url), builder, TRUE)
                EXCEPT !._readyPromise = Pending]
        ELSE [constructed EXCEPT !._readyPromise = Fulfilled]
  IN IF path = "fromUrl"
     THEN [Bing_requestMetadata(withUrlOption, c, url, builder, FALSE)
             EXCEPT !.fromUrl = Pending]
     ELSE withUrlOption

MetadataIdle ==
  /\ mdConstructions = <<>>
  /\ mdOperations = <<>>
  /\ mdFetches = <<>>
  /\ _metadataCache = [ cacheKey \in CacheKeys |-> Undefined ]

\* BingMapsImageryProvider._metadataCache = {} and nothing constructed yet.
MetadataInit == MetadataIdle

\* One construction: the deprecated constructor with options.url, or fromUrl
\* (whose options may carry the deprecated url as well).
StartConstruction ==
  /\ Len(mdConstructions) < MaxConstructions
  /\ \E kind \in {"ArcGis", "Bing"}, path \in {"fromUrl", "constructor"},
        url \in Endpoints, options \in MetadataOptions :
       /\ path = "constructor" => options.url = Box(url)
       /\ kind = "ArcGis" => url = ArcGis_Endpoint
       /\ kind = "Bing" => ~defined(options.usePreCachedTilesIfAvailable)
       /\ options.url \in {Undefined, Box(url)}
       /\ LET c == Len(mdConstructions) + 1
              st == [provider |-> Undefined, builds |-> 0,
                     _readyPromise |-> Undefined, fromUrl |-> Undefined,
                     operations |-> mdOperations, fetches |-> mdFetches,
                     cache |-> _metadataCache]
              started == IF kind = "ArcGis"
                         THEN ArcGis_construct(st, c, path, url, options)
                         ELSE Bing_construct(st, c, path, url, options)
          IN /\ mdConstructions' =
                  Append(mdConstructions,
                         [kind |-> kind, path |-> path,
                          url |-> IF path = "fromUrl" THEN Box(url) ELSE Undefined,
                          options |-> options,
                          provider |-> started.provider,
                          builds |-> started.builds,
                          errorEvents |-> <<>>,
                          _readyPromise |-> started._readyPromise,
                          fromUrl |-> started.fromUrl])
             /\ mdOperations' = started.operations
             /\ mdFetches' = started.fetches
             /\ _metadataCache' = started.cache

\* The promise an operation belongs to: the constructor's _readyPromise when
\* the provider was passed, else the promise of fromUrl.
SettlePromise(construction, providerGiven, outcome) ==
  IF providerGiven
  THEN [construction EXCEPT !._readyPromise = outcome]
  ELSE [construction EXCEPT !.fromUrl = outcome]

\* Mutant: the error event of the provider is handed to reportError on the
\* fromUrl path too.
requestMetadata_resume_alwaysReports(md, o, response) ==
  LET op == md.operations[o]
      outcome == IF ~response.ok
                 THEN [builder |-> op.builder, error |-> response.error]
                 ELSE IF op.kind = "ArcGis"
                 THEN metadataSuccess(response.data, op.builder)
                 ELSE Bing_metadataSuccess(response.data, op.builder)
      message == metadataFailureMessage(op.resourceUrl, outcome.error)
      construction == md.constructions[op.construction]
  IN IF defined(outcome.error)
     THEN [operations |-> [md.operations EXCEPT ![o].pc = "failed",
                                                ![o].builder = outcome.builder],
           constructions |->
             [md.constructions EXCEPT ![op.construction] =
                SettlePromise(
                  [construction EXCEPT !.errorEvents = reportError(TRUE, @, message)],
                  op.provider, Rejected(RuntimeError(message)))]]
     ELSE [operations |-> [md.operations EXCEPT ![o].pc = "resolved",
                                                ![o].builder = outcome.builder],
           constructions |-> md.constructions]

\* requestMetadata after its await, for operation o and what its promise
\* settled with: metadataSuccess on a document, metadataFailure on a
\* rejection or when metadataSuccess throws.  md holds the operations and the
\* constructions.
requestMetadata_resume(md, o, response) ==
  LET op == md.operations[o]
      outcome == IF ~response.ok
                 THEN [builder |-> op.builder, error |-> response.error]
                 ELSE IF op.kind = "ArcGis"
                 THEN metadataSuccess(response.data, op.builder)
                 ELSE Bing_metadataSuccess(response.data, op.builder)
      message == metadataFailureMessage(op.resourceUrl, outcome.error)
      construction == md.constructions[op.construction]
  IN IF defined(outcome.error)
     THEN [operations |-> [md.operations EXCEPT ![o].pc = "failed",
                                                ![o].builder = outcome.builder],
           constructions |->
             [md.constructions EXCEPT ![op.construction] =
                SettlePromise(
                  [construction EXCEPT !.errorEvents = reportError(op.provider, @, message)],
                  op.provider, Rejected(RuntimeError(message)))]]
     ELSE [operations |-> [md.operations EXCEPT ![o].pc = "resolved",
                                                ![o].builder = outcome.builder],
           constructions |-> md.constructions]

\* The reactions of a promise run in the order the awaits were made.
RECURSIVE resumeAwaiting(_, _, _, _)
resumeAwaiting(md, f, response, o) ==
  IF o > Len(md.operations) THEN md
  ELSE resumeAwaiting(
         IF md.operations[o].fetch = f /\ md.operations[o].pc = "awaiting"
         THEN requestMetadata_resume(md, o, response) ELSE md,
         f, response, o + 1)

\* The network settles a fetchJsonp promise, and every requestMetadata that
\* awaits it resumes.  bingResponses is what a Bing query may settle with.
SettleFetch(bingResponses) ==
  \E f \in DOMAIN mdFetches :
    /\ ~defined(mdFetches[f].response)
    /\ \E response \in (IF mdFetches[f].kind = "ArcGis"
                        THEN ArcGis_MetadataResponses ELSE bingResponses) :
         LET resumed == resumeAwaiting([operations |-> mdOperations,
                                        constructions |-> mdConstructions],
                                       f, response, 1)
         IN /\ mdFetches' = [mdFetches EXCEPT ![f].response = response]
            /\ mdOperations' = resumed.operations
            /\ mdConstructions' = resumed.constructions
    /\ UNCHANGED _metadataCache

\* A requestMetadata that awaited a cached promise settled before the call
\* resumes on its own.
ResumeMetadata ==
  \E o \in DOMAIN mdOperations :
    /\ mdOperations[o].pc = "awaiting"
    /\ defined(mdFetches[mdOperations[o].fetch].response)
    /\ LET resumed == requestMetadata_resume([operations |-> mdOperations,
                                              constructions |-> mdConstructions],
                                             o, mdFetches[mdOperations[o].fetch].response)
       IN /\ mdOperations' = resumed.operations
          /\ mdConstructions' = resumed.constructions
    /\ UNCHANGED <<mdFetches, _metadataCache>>

\* resource.imageryProviders of the document a Bing fetch settled with: the
\* one array every builder made from that document refers to.
Bing_sharedAttributionList(fetch) ==
  fetch.response.data.resourceSets[1].resources[1].imageryProviders

\* The continuation after requestMetadata: imageryProviderBuilder.build(provider).
\* The Bing build works on the array of the document itself, so what it
\* does to the entries is seen by every later build from that document.
BuildAfterMetadata ==
  \E o \in DOMAIN mdOperations :
    LET op == mdOperations[o]
        construction == mdConstructions[op.construction]
        built == IF op.kind = "ArcGis"
                 THEN build(op.builder, construction.provider)
                 ELSE Bing_build([op.builder EXCEPT
                                    !.attributionList = Bing_sharedAttributionList(mdFetches[op.fetch])],
                                 construction.provider)
    IN /\ op.pc = "resolved"
       /\ mdOperations' = [mdOperations EXCEPT ![o].pc = "built"]
       /\ mdConstructions' =
            [mdConstructions EXCEPT ![op.construction] =
               SettlePromise([construction EXCEPT !.provider = built, !.builds = @ + 1],
                             op.provider, Fulfilled)]
       /\ mdFetches' =
            IF op.kind = "ArcGis"
            THEN mdFetches
            ELSE [mdFetches EXCEPT
                    ![op.fetch].response.data.resourceSets[1].resources[1].imageryProviders =
                      built._attributionList]
       /\ UNCHANGED _metadataCache

(***************************************************************************)
(* ITwinPlatform: getExport, getExports, createExportForModelId            *)
(***************************************************************************)
\* The ids the functions are called with.
ITwin_Ids == {"id-1", "id-2"}

\* The statuses of a response; response.ok is true for 200..299.
ITwin_Statuses == {200, 401, 403, 404, 422, 429, 500}

\* The bodies of a response: one that is not JSON, an error document whose
\* details list has an entry, one whose details list is empty, and a
\* document without an error member (the export document of a success).
ITwin_Bodies ==
  { [parses |-> FALSE, json |-> Undefined] }
  \cup
  { [parses |-> TRUE,
     json |-> [error |-> [code |-> "code", message |-> "message", details |-> details],
               export |-> Undefined, exports |-> Undefined]] :
      details \in { <<>>, <<[code |-> "detail"]>> } }
  \cup
  { [parses |-> TRUE,
     json |-> [error |-> Undefined, export |-> [id |-> "export-1"], exports |-> <<>>]] }

ITwin_Responses ==
  { [ok |-> status = 200, status |-> status, body |-> body] :
      status \in ITwin_Statuses, body \in ITwin_Bodies }

SyntaxError == [type |-> "SyntaxError", message |-> <<"Unexpected token">>]

TypeError == [type |-> "TypeError", message |-> <<"Cannot read properties of undefined">>]

DeveloperError(message) == [type |-> "DeveloperError", message |-> message]

\* `${result.error.details[0].code}`: the text, or undefined when reading
\* it throws a TypeError.
ITwin_detailsCode(result) ==
  IF defined(result.error)
  THEN IF Len(result.error.details) > 0
       THEN Box(result.error.details[1].code)
       ELSE Undefined
  ELSE Undefined

\* getExport after `await fetch`: what its promise settles with.
ITwinPlatform_getExport(exportId, response) ==
  IF ~response.body.parses
  THEN Rejected(SyntaxError)
  ELSE LET result == response.body.json
       IN IF ~response.ok
          THEN IF response.status = 401
               THEN IF defined(ITwin_detailsCode(result))
                    THEN Rejected(RuntimeError(
                           <<"Unauthorized, bad token, wrong scopes or headers bad. ",
                             Unbox(ITwin_detailsCode(result))>>))
                    ELSE Rejected(TypeError)
               ELSE IF response.status = 404
               THEN Rejected(RuntimeError(<<"Requested export is not available ", exportId>>))
               ELSE IF response.status = 429
               THEN Rejected(RuntimeError(<<"Too many requests">>))
               ELSE Rejected(RuntimeError(<<"Unknown request failure ", response.status>>))
          ELSE [state |-> "fulfilled", value |-> result]

\* getExports after `await fetch`.
ITwinPlatform_getExports(iModelId, response) ==
  IF ~response.body.parses
  THEN Rejected(SyntaxError)
  ELSE LET result == response.body.json
       IN IF ~response.ok
          THEN IF response.status = 401
               THEN IF defined(ITwin_detailsCode(result))
                    THEN Rejected(RuntimeError(
                           <<"Unauthorized, bad token, wrong scopes or headers bad. ",
                             Unbox(ITwin_detailsCode(result))>>))
                    ELSE Rejected(TypeError)
               ELSE IF response.status = 403
               THEN IF defined(result.error)
                    THEN Rejected(RuntimeError(<<"Not allowed, forbidden">>))
                    ELSE Rejected(TypeError)
               ELSE IF response.status = 422
               THEN IF defined(result.error)
                    THEN Rejected(RuntimeError(<<"Unprocessable Entity:", result.error.code,
                                                 " ", result.error.message>>))
                    ELSE Rejected(TypeError)
               ELSE IF response.status = 429
               THEN Rejected(RuntimeError(<<"Too many requests">>))
               ELSE Rejected(RuntimeError(<<"Unknown request failure ", response.status>>))
          ELSE [state |-> "fulfilled", value |-> result]

\* createExportForModelId after `await fetch`.
ITwinPlatform_createExportForModelId(iModelId, response) ==
  IF ~response.body.parses
  THEN Rejected(SyntaxError)
  ELSE LET result == response.body.json
       IN IF ~response.ok
          THEN IF response.status = 401
               THEN IF defined(result.error)
                    THEN Rejected(RuntimeError(
                           <<"Unauthorized, bad token, wrong scopes or headers bad">>))
                    ELSE Rejected(TypeError)
               ELSE IF response.status = 403
               THEN IF defined(result.error)
                    THEN Rejected(RuntimeError(<<"Not allowed, forbidden">>))
                    ELSE Rejected(TypeError)
               ELSE IF response.status = 422
               THEN IF defined(result.error)
                    THEN Rejected(RuntimeError(<<"Unprocessable: Cannot create export job">>))
                    ELSE Rejected(TypeError)
               ELSE IF response.status = 429
               THEN Rejected(RuntimeError(<<"Too many requests">>))
               ELSE Rejected(RuntimeError(<<"Unknown request failure ", response.status>>))
          ELSE IF defined(result.export)
          THEN [state |-> "fulfilled", value |-> result.export.id]
          ELSE Rejected(TypeError)

ITwinIdle == itCall = [pc |-> "idle"]

\* ITwinPlatform.defaultAccessToken = undefined and nothing called yet.
ITwinInit == ITwinIdle

\* One of the three functions is called, up to its `await fetch`.  The
\* access token may not have been set: a debug build then throws a
\* DeveloperError before any request, a release build goes on.
ITwin_Call ==
  /\ itCall.pc = "idle"
  /\ \E fn \in {"getExport", "getExports", "createExportForModelId"},
        id \in ITwin_Ids, defaultAccessToken \in {Undefined, Box("token")},
        debug \in BOOLEAN :
       itCall' =
         IF debug /\ ~defined(defaultAccessToken)
         THEN [pc |-> "settled", fn |-> fn, id |-> id, fetches |-> 0, response |-> Undefined,
               outcome |-> Rejected(DeveloperError(<<"Must set ITwin.defaultAccessToken first">>))]
         ELSE [pc |-> "awaiting", fn |-> fn, id |-> id, fetches |-> 1, response |-> Undefined,
               outcome |-> Pending]

\* The fetch settles with a response and the function runs to its end.
ITwin_Response ==
  /\ itCall.pc = "awaiting"
  /\ \E response \in ITwin_Responses :
       itCall' = [itCall EXCEPT
                    !.pc = "settled",
                    !.response = response,
                    !.outcome = IF itCall.fn = "getExport"
                                THEN ITwinPlatform_getExport(itCall.id, response)
                                ELSE IF itCall.fn = "getExports"
                                THEN ITwinPlatform_getExports(itCall.id, response)
                                ELSE ITwinPlatform_createExportForModelId(itCall.id, response)]

\* The call is over; the next one starts from scratch.
ITwin_Return ==
  /\ itCall.pc = "settled"
  /\ itCall' = [pc |-> "idle"]

(***************************************************************************)
(* The per-tile calls of a built provider, several of them in flight       *)
(***************************************************************************)
\* Mutant: the level is left out of the sum.
Bing_subdomainIndex_ignoresLevel(x, y, level, length) == (x + y) % length

\* const subdomainIndex = (x + y + level) % subdomains.length
Bing_subdomainIndex(x, y, level, length) == (x + y + level) % length

\* buildImageResource of the Bing provider: the template, its values and
\* the query parameter that asks for a zero-length response for a missing tile.
Bing_buildImageResource(imageryProvider, x, y, level) ==
  LET imageUrl == imageryProvider._imageUrlTemplate
      subdomains == imageryProvider._imageUrlSubdomains
      subdomainIndex == Bing_subdomainIndex(x, y, level, Len(subdomains))
  IN [ url |-> imageUrl,
       templateValues |-> [ quadkey |-> tileXYToQuadKey(x, y, level),
                            subdomain |-> subdomains[subdomainIndex + 1],
                            culture |-> imageryProvider._culture ],
       queryParameters |-> [n |-> "z"] ]

\* DiscardEmptyTilePolicy.EMPTY_IMAGE
EMPTY_IMAGE == "DiscardEmptyTilePolicy.EMPTY_IMAGE"

\* Mutant: the handler passes every error on.
Bing_requestImage_catch_rejectsAll(error) == Rejected(error)

\* The function requestImage hands to promise.catch.
Bing_requestImage_catch(error) ==
  IF defined(error.blob)
  THEN IF error.blob.size = 0
       THEN [state |-> "fulfilled", value |-> EMPTY_IMAGE]
       ELSE Rejected(error)
  ELSE Rejected(error)

\* BingMapsImageryProvider.prototype.requestImage: what it returns, as far
\* as settled, for what ImageryProvider.loadImage returned: undefined for a
\* deferred request, else the promise of promise.catch.
Bing_requestImage(promise) ==
  IF defined(promise)
  THEN IF promise.state = "rejected" THEN Bing_requestImage_catch(promise.error) ELSE promise
  ELSE Undefined

\* ArcGisMapServerImageryProvider.prototype.requestImage returns what
\* ImageryProvider.loadImage returned.
ArcGis_requestImage(promise) == promise

\* What an image load settles with: the image, or an error with a
\* zero-length blob, with a blob that has content, or without a blob.
LoadErrors ==
  { [type |-> "RequestErrorEvent", blob |-> blob] : blob \in {Undefined, [size |-> 0], [size |-> 7]} }

LoadOutcomes ==
  { [state |-> "fulfilled", value |-> "image"] } \cup { Rejected(error) : error \in LoadErrors }

\* What the identify fetch of a call settles with here: a document without
\* results, one with a point, or a transport failure.
CallsIdentifyResponses ==
  { r \in IdentifyResponses :
      r.ok => (r.json.results \in
                 {Undefined,
                  <<[geometryType |-> "esriGeometryPoint", value |-> "point", attributes |-> "a",
                     geometry |-> PointGeometry([wkid |-> Box(4283)])]>>}) }

\* The options the per-tile functions of the ArcGIS provider read.
CallsOptionsObjects ==
  { o \in OptionsObjects :
      \A n \in OptionNames \ {"enablePickFeatures", "layers"} : o[n] = Undefined }

\* A server with tiles, one without, and a transport failure.
CallsResponses ==
  { r \in TileInfoResponses :
      r.ok => r.data.tileInfo \in {Undefined, ArcGis_tileInfo(102100, 3)} }

\* The Bing documents: they differ in the number of subdomains.
Bing_SubdomainLists == { <<"t0">>, <<"t0", "t1">>, <<"t0", "t1", "t2">> }

Bing_CallsResponses ==
  { [ok |-> TRUE,
     data |-> [resourceSets |->
                 << [Bing_resourceSet(21) EXCEPT !.resources[1].imageUrlSubdomains = subdomains] >>]] :
      subdomains \in Bing_SubdomainLists }
  \cup { [ok |-> FALSE, error |-> RequestErrorEvent] }

\* The tiles of the calls; the sums x + y + level are 10, 2 and 3.
CallTiles == RequestTiles \cup { [x |-> 1, y |-> 1, level |-> 1] }

Bing_CreditTiles == { tile \in CreditTiles : tile.y = 0 }

CallsIdle == calls = <<>>

\* The one Bing provider of this machine, once fromUrl has built it.
BingReady ==
  IF Len(mdConstructions) = 1 THEN mdConstructions[1].provider._ready ELSE FALSE

\* BingMapsImageryProvider.fromUrl(url) when no provider of either kind
\* has been made.
Bing_FromUrl ==
  /\ agPc = "idle"
  /\ Len(mdConstructions) = 0
  /\ StartConstruction
  /\ mdConstructions'[1].kind = "Bing"
  /\ mdConstructions'[1].path = "fromUrl"
  /\ ~defined(mdConstructions'[1].options.url)

\* provider.requestImage(x, y, level) on the ArcGIS provider.
Call_ArcGis_requestImage ==
  /\ agPc = "ready"
  /\ Len(calls) < MaxCalls
  /\ \E tile \in RequestTiles, deferred \in BOOLEAN :
       LET promise == IF deferred THEN Undefined ELSE Pending
       IN calls' = Append(calls,
                          [of |-> "ArcGis", op |-> "requestImage", tile |-> tile,
                           resource |-> buildImageResource(agProvider, tile.x, tile.y, tile.level),
                           load |-> promise,
                           result |-> ArcGis_requestImage(promise)])

\* provider.pickFeatures(x, y, level, longitude, latitude) on the ArcGIS
\* provider: undefined when picking is disabled, else the promise of then.
Call_ArcGis_pickFeatures ==
  /\ agPc = "ready"
  /\ Len(calls) < MaxCalls
  /\ \E tile \in RequestTiles :
       LET picked == pickFeatures(agProvider, tile.x, tile.y, tile.level, "longitude", "latitude")
       IN calls' = Append(calls,
                          [of |-> "ArcGis", op |-> "pickFeatures", tile |-> tile,
                           resource |-> picked.resource,
                           load |-> IF picked.fetched THEN Pending ELSE Undefined,
                           result |-> IF picked.fetched THEN Pending ELSE Undefined])

\* provider.getTileCredits(x, y, level) on the ArcGIS provider: undefined.
Call_ArcGis_getTileCredits ==
  /\ agPc = "ready"
  /\ Len(calls) < MaxCalls
  /\ \E tile \in RequestTiles :
       calls' = Append(calls,
                       [of |-> "ArcGis", op |-> "getTileCredits", tile |-> tile,
                        resource |-> Undefined, load |-> Undefined, result |-> Undefined])

\* provider.requestImage(x, y, level) on the Bing provider.
Call_Bing_requestImage ==
  /\ BingReady
  /\ Len(calls) < MaxCalls
  /\ \E tile \in CallTiles, deferred \in BOOLEAN :
       LET promise == IF deferred THEN Undefined ELSE Pending
       IN calls' = Append(calls,
                          [of |-> "Bing", op |-> "requestImage", tile |-> tile,
                           resource |-> Bing_buildImageResource(mdConstructions[1].provider,
                                                                tile.x, tile.y, tile.level),
                           load |-> promise,
                           result |-> Bing_requestImage(promise)])

\* provider.getTileCredits(x, y, level) on the Bing provider.
Call_Bing_getTileCredits ==
  /\ BingReady
  /\ Len(calls) < MaxCalls
  /\ \E tile \in Bing_CreditTiles :
       calls' = Append(calls,
                       [of |-> "Bing", op |-> "getTileCredits", tile |-> tile,
                        resource |-> Undefined, load |-> Undefined,
                        result |-> [value |-> Bing_getTileCredits(mdConstructions[1].provider,
                                                                  tile.x, tile.y, tile.level)]])

\* Mutant: a failed load rejects every call that is in flight.
settleLoad_failureRejectsAll(cs, i, outcome) ==
  [ k \in DOMAIN cs |->
      IF k = i \/ (outcome.state = "rejected" /\ cs[k].load = Pending)
      THEN [cs[k] EXCEPT !.load = outcome, !.result = outcome]
      ELSE cs[k] ]

\* The load of call i settles: its promise, and the promise requestImage
\* returned for it.
settleLoad(cs, i, outcome) ==
  [cs EXCEPT ![i].load = outcome,
             ![i].result = IF cs[i].of = "Bing"
                           THEN Bing_requestImage(outcome)
                           ELSE ArcGis_requestImage(outcome)]

\* The image load of a requestImage call settles.
Settle_loadImage ==
  \E i \in DOMAIN calls :
    /\ calls[i].op = "requestImage"
    /\ calls[i].load = Pending
    /\ \E outcome \in LoadOutcomes : calls' = settleLoad(calls, i, outcome)

\* The identify fetch of a pickFeatures call settles and the function
\* handed to then runs; a rejection is passed on by then.
Settle_fetchJson ==
  \E i \in DOMAIN calls :
    /\ calls[i].op = "pickFeatures"
    /\ calls[i].load = Pending
    /\ \E response \in CallsIdentifyResponses :
         calls' = [calls EXCEPT
                     ![i].load = IF response.ok
                                 THEN [state |-> "fulfilled", value |-> response.json]
                                 ELSE Rejected(response.error),
                     ![i].result = IF response.ok
                                   THEN [state |-> "fulfilled",
                                         value |-> pickFeatures_then(response.json)]
                                   ELSE Rejected(response.error)]

(***************************************************************************)
(* Specifications                                                          *)
(***************************************************************************)
InitQuadKey == QuadKeyInit /\ AttributionIdle /\ ArcGisIdle /\ MetadataIdle /\ ITwinIdle /\ CallsIdle

NextQuadKey == (Encode \/ Decode) /\ UNCHANGED <<atVars, agVars, mdVars, itVars, cfVars>>

SpecQuadKey == InitQuadKey /\ [][NextQuadKey]_vars

InitAttribution == AttributionInit /\ QuadKeyIdle /\ ArcGisIdle /\ MetadataIdle /\ ITwinIdle /\ CallsIdle

NextAttribution == GetTileCredits /\ UNCHANGED <<qkVars, agVars, mdVars, itVars, cfVars>>

SpecAttribution == InitAttribution /\ [][NextAttribution]_vars

InitArcGis == ArcGisInit /\ QuadKeyIdle /\ AttributionIdle /\ MetadataIdle /\ ITwinIdle /\ CallsIdle

\* Construction and metadata resolution over every capability document.
NextArcGis ==
  (Construct \/ MetadataResponse(Responses) \/ Build) /\ UNCHANGED <<qkVars, atVars, mdVars, itVars, cfVars>>

SpecArcGis == InitArcGis /\ [][NextArcGis]_vars

\* Construction followed by the per-tile operations of the provider.
NextArcGisCalls ==
  (\/ Construct
   \/ MetadataResponse(TileInfoResponses)
   \/ Build
   \/ RequestImage
   \/ PickFeatures
   \/ SetEnablePickFeatures) /\ UNCHANGED <<qkVars, atVars, mdVars, itVars, cfVars>>

SpecArcGisCalls == InitArcGis /\ [][NextArcGisCalls]_vars

\* A provider of a server without tiles, its pickFeatures calls and their
\* identify responses.
InitArcGisPick == InitArcGis /\ agOptions \in PickOptionsObjects

NextArcGisPick ==
  (\/ Construct
   \/ MetadataResponse(DynamicResponses)
   \/ Build
   \/ PickFeatures
   \/ IdentifyResponse) /\ UNCHANGED <<qkVars, atVars, mdVars, itVars, cfVars>>

SpecArcGisPick == InitArcGisPick /\ [][NextArcGisPick]_vars

InitITwin == ITwinInit /\ QuadKeyIdle /\ AttributionIdle /\ ArcGisIdle /\ MetadataIdle /\ CallsIdle

NextITwin ==
  (ITwin_Call \/ ITwin_Response \/ ITwin_Return)
    /\ UNCHANGED <<qkVars, atVars, agVars, mdVars, cfVars>>

SpecITwin == InitITwin /\ [][NextITwin]_vars

InitMetadata == MetadataInit /\ QuadKeyIdle /\ AttributionIdle /\ ArcGisIdle /\ ITwinIdle /\ CallsIdle

\* Constructions of either provider, their fetches and their continuations,
\* interleaved in every order.
NextMetadata ==
  (StartConstruction \/ SettleFetch(Bing_MetadataResponses) \/ ResumeMetadata \/ BuildAfterMetadata)
    /\ UNCHANGED <<qkVars, atVars, agVars, itVars, cfVars>>

SpecMetadata == InitMetadata /\ [][NextMetadata]_vars

\* One provider of either kind is made and built, and per-tile calls are
\* made on it while earlier ones are still in flight.
InitCalls ==
  /\ (ArcGisIdle \/ (ArcGisInit /\ agOptions \in CallsOptionsObjects))
  /\ MetadataInit /\ CallsIdle /\ QuadKeyIdle /\ AttributionIdle /\ ITwinIdle

NextCalls ==
  (\/ (Construct \/ MetadataResponse(CallsResponses) \/ Build) /\ UNCHANGED <<mdVars, cfVars>>
   \/ (Bing_FromUrl \/ SettleFetch(Bing_CallsResponses) \/ BuildAfterMetadata)
        /\ UNCHANGED <<agVars, cfVars>>
   \/ (\/ Call_ArcGis_requestImage
       \/ Call_ArcGis_pickFeatures
       \/ Call_ArcGis_getTileCredits
       \/ Call_Bing_requestImage
       \/ Call_Bing_getTileCredits
       \/ Settle_loadImage
       \/ Settle_fetchJson) /\ UNCHANGED <<agVars, mdVars>>)
    /\ UNCHANGED <<qkVars, atVars, itVars>>

SpecCalls == InitCalls /\ [][NextCalls]_vars

(***************************************************************************)
(* Claims about the quadkey functions (SpecQuadKey)                        *)
(***************************************************************************)
\* Bit i of the non-negative integer n.
BitOf(n, i) == (n \div (2 ^ i)) % 2

\* C1: quadkey round trip.  For every level and every x, y in [0, 2^level),
\* quadKeyToTileXY(tileXYToQuadKey(x, y, level)) is exactly {x, y, level}.
C1_QuadKeyRoundTrip ==
  (qkPc = "decoded" /\ qkTile.x < 2 ^ qkTile.level /\ qkTile.y < 2 ^ qkTile.level)
    => qkDecoded = [x |-> qkTile.x, y |-> qkTile.y, level |-> qkTile.level]

\* A tile of the deepest level with x # y has been encoded and decoded.
C1_Witness ==
  /\ qkPc = "decoded"
  /\ qkTile = [x |-> 6, y |-> 3, level |-> 3]
  /\ Len(quadkey) = 4
  /\ qkDecoded.x = 6

\* C2: tileXYToQuadKey(x, y, level) is a string of exactly level+1 digits in
\* 0..3 whose k-th digit (k = 0 first) is (1 if bit level-k of x is set) +
\* (2 if bit level-k of y is set); tileXYToQuadKey(3, 5, 3) = "0213" and
\* quadKeyToTileXY("0213") = {x: 3, y: 5, level: 3}.
C2_QuadKeyDigits ==
  /\ qkPc \in {"encoded", "decoded"} =>
       /\ Len(quadkey) = qkTile.level + 1
       /\ \A k \in 0..qkTile.level :
            quadkey[k + 1] =
              DigitChars[1 + BitOf(qkTile.x, qkTile.level - k)
                           + 2 * BitOf(qkTile.y, qkTile.level - k)]
       /\ \A k \in 1..Len(quadkey) : quadkey[k] \in {"0", "1", "2", "3"}
  /\ (qkPc \in {"encoded", "decoded"} /\ qkTile = [x |-> 3, y |-> 5, level |-> 3])
       => quadkey = <<"0", "2", "1", "3">>
  /\ (qkPc = "decoded" /\ quadkey = <<"0", "2", "1", "3">>)
       => qkDecoded = [x |-> 3, y |-> 5, level |-> 3]

\* The example of the claim: (3, 5, 3) has been encoded to "0213" and decoded.
C2_Witness ==
  /\ qkPc = "decoded"
  /\ qkTile = [x |-> 3, y |-> 5, level |-> 3]
  /\ quadkey = <<"0", "2", "1", "3">>
  /\ qkDecoded.y = 5

(***************************************************************************)
(* Claims about the attribution lookup (SpecAttribution)                   *)
(***************************************************************************)
\* The two tests of the claim, for one coverage area and the last query.
ZoomCovers(area, level) == area.zoomMin <= level + 1 /\ level + 1 <= area.zoomMax

BoxMeets(area, tile) ==
  defined(Rectangle_intersection(tileXYToRectangle(tile.x, tile.y, tile.level), area.bbox))

Qualifies(entry, tile) ==
  \E a \in 1..Len(entry.coverageAreas) :
    /\ ZoomCovers(entry.coverageAreas[a], tile.level)
    /\ BoxMeets(entry.coverageAreas[a], tile)

CreditsReturned == { credits[i] : i \in 1..Len(credits) }

\* C3: the credit of an attribution entry is returned if and only if at
\* least one of its coverage areas satisfies both zoomMin <= level+1 <=
\* zoomMax and a defined intersection of its bbox with the tile rectangle;
\* nothing else is returned.
C3_CreditsIffQualifyingArea ==
  defined(creditTile) =>
    /\ \A k \in 1..Len(attributionList) :
         (attributionList[k].credit \in CreditsReturned)
           <=> Qualifies(attributionList[k], creditTile)
    /\ \A c \in CreditsReturned :
         \E k \in 1..Len(attributionList) : attributionList[k].credit = c

\* The first entry has one area that passes only the zoom test and one that
\* passes only the rectangle test, and is left out; the second is returned.
C3_Witness ==
  /\ defined(creditTile)
  /\ Len(attributionList) = 2
  /\ credits = <<attributionList[2].credit>>
  /\ Len(attributionList[1].coverageAreas) = 2
  /\ \E a, b \in 1..2 :
       /\ ZoomCovers(attributionList[1].coverageAreas[a], creditTile.level)
       /\ ~BoxMeets(attributionList[1].coverageAreas[a], creditTile)
       /\ ~ZoomCovers(attributionList[1].coverageAreas[b], creditTile.level)
       /\ BoxMeets(attributionList[1].coverageAreas[b], creditTile)

\* C4: the returned sequence holds the credit of each entry at most once and
\* in the order of the attribution list (the entry at index k carries the
\* Credit object k).
C4_CreditsOrderedNoDuplicates ==
  \A i, j \in 1..Len(credits) : i < j => credits[i] < credits[j]

\* Two entries are returned, the first of them with two qualifying areas.
C4_Witness ==
  /\ defined(creditTile)
  /\ Len(credits) = 2
  /\ Len(attributionList[1].coverageAreas) = 2
  /\ \A a \in 1..2 :
       /\ ZoomCovers(attributionList[1].coverageAreas[a], creditTile.level)
       /\ BoxMeets(attributionList[1].coverageAreas[a], creditTile)
  /\ attributionList[1].coverageAreas[1] # attributionList[1].coverageAreas[2]

(***************************************************************************)
(* Claims about ArcGIS metadata resolution and build (SpecArcGis)          *)
(***************************************************************************)
\* The capability document has arrived.
DocumentArrived == IF defined(agResponse) THEN agResponse.ok ELSE FALSE

\* The code a section reports: undefined when the section has no
\* spatialReference or the spatialReference no wkid.
WkidOf(section) ==
  IF defined(section.spatialReference) THEN section.spatialReference.wkid ELSE Undefined

SupportedWkids == {Box(102100), Box(102113), Box(4326)}

ResolutionFailed ==
  /\ agPc = "failed"
  /\ agOutcome.state = "rejected"
  /\ agOutcome.error.type = "RuntimeError"
  /\ ~agProvider._ready

\* C5: with a tileInfo section, wkid 102100 or 102113 selects the
\* WebMercatorTilingScheme, 4326 the GeographicTilingScheme, and any other
\* value, a missing one included, makes metadata resolution fail with a
\* RuntimeError, so that no provider is produced.
C5_TileInfoWkidSelectsTilingScheme ==
  (DocumentArrived /\ defined(agResponse.data.tileInfo)) =>
    LET wkid == WkidOf(agResponse.data.tileInfo)
    IN /\ wkid \in {Box(102100), Box(102113)} =>
            /\ agBuilder.tilingScheme = "WebMercator"
            /\ agPc = "ready" => agProvider._tilingScheme = "WebMercator"
       /\ wkid = Box(4326) =>
            /\ agBuilder.tilingScheme = "Geographic"
            /\ agPc = "ready" => agProvider._tilingScheme = "Geographic"
       /\ wkid \notin SupportedWkids => ResolutionFailed

\* The caller asked for a web-mercator scheme, the document reports 4326,
\* and the provider was built with the geographic scheme.
C5_Witness ==
  /\ agPc = "ready"
  /\ DocumentArrived
  /\ defined(agResponse.data.tileInfo)
  /\ agOptions.tilingScheme = Box("WebMercator")
  /\ WkidOf(agResponse.data.tileInfo) = Box(4326)
  /\ agProvider._tilingScheme = "Geographic"

\* The fullExtent section reports a code, and not a supported one.
FullExtentUnsupported ==
  /\ DocumentArrived
  /\ defined(agResponse.data.fullExtent)
  /\ defined(WkidOf(agResponse.data.fullExtent))
  /\ WkidOf(agResponse.data.fullExtent) \notin SupportedWkids

ImageRequested == agCall.op = "requestImage"

\* The parts of C8 that do not concern the layers parameter.
ExportRequestShape ==
  /\ (agPc = "ready" /\ DocumentArrived /\ ~defined(agResponse.data.tileInfo)) =>
       ~agProvider._useTiles
  /\ (ImageRequested /\ ~agProvider._useTiles) =>
       LET query == agCall.resource.queryParameters
           native == tileXYToNativeRectangle(agProvider._tilingScheme,
                                             agCall.tile.x, agCall.tile.y, agCall.tile.level)
           code == IF agProvider._tilingScheme = "Geographic" THEN 4326 ELSE 3857
       IN /\ agCall.resource.url = <<"export">>
          /\ query.bbox = <<native.west, native.south, native.east, native.north>>
          /\ query.size = <<Unbox(agProvider._tileWidth), Unbox(agProvider._tileHeight)>>
          /\ query.format = "png32"
          /\ query.transparent
          /\ query.bboxSR = code
          /\ query.imageSR = code
  /\ (/\ ImageRequested
      /\ ~agProvider._useTiles
      /\ agCall.tile = [x |-> 2, y |-> 3, level |-> 5]
      /\ agProvider._tilingScheme = "Geographic"
      /\ ~defined(agOptions.tileWidth)
      /\ ~defined(agOptions.tileHeight)) =>
       /\ agCall.resource.queryParameters.size = <<256, 256>>
       /\ agCall.resource.queryParameters.bbox = <<-1350, 540, -1305, 585>>

\* C8 as stated: ... and a layers parameter "show:<layers>" is present
\* exactly when a layer filter is configured.
C8_ExportQueryLayersIfConfigured ==
  /\ ExportRequestShape
  /\ (ImageRequested /\ ~agProvider._useTiles) =>
       /\ ("layers" \in DOMAIN agCall.resource.queryParameters) <=> defined(agProvider._layers)
       /\ defined(agProvider._layers) =>
            agCall.resource.queryParameters.layers = <<"show:", Unbox(agProvider._layers)>>

\* What the code does about the layers parameter: `if (imageryProvider.layers)`
\* adds "show:<layers>" exactly when the layer filter is a non-empty string.
C8_ExportQueryLayersIfNonEmpty ==
  /\ ExportRequestShape
  /\ (ImageRequested /\ ~agProvider._useTiles) =>
       LET filter == IF defined(agProvider._layers) THEN Unbox(agProvider._layers) ELSE ""
       IN /\ ("layers" \in DOMAIN agCall.resource.queryParameters) <=> filter # ""
          /\ filter # "" => agCall.resource.queryParameters.layers = <<"show:", filter>>

\* The example of C8, on a server without tileInfo, is reached.
C8_Witness ==
  /\ ImageRequested
  /\ DocumentArrived
  /\ ~defined(agResponse.data.tileInfo)
  /\ agCall.tile = [x |-> 2, y |-> 3, level |-> 5]
  /\ agProvider._tilingScheme = "Geographic"
  /\ agCall.resource.url = <<"export">>
  /\ agCall.resource.queryParameters.size = <<256, 256>>
  /\ agProvider._layers = Box("0,1")
  /\ "layers" \in DOMAIN agCall.resource.queryParameters

\* C9: the committed addressing mode chooses the one algorithm that runs:
\* with usingPrecachedTiles the resource is the path tile/<level>/<y>/<x>
\* with no added query parameters, never an export query; without it the
\* resource is an export query, never a tile path.
C9_AddressingModeChoosesAlgorithm ==
  ImageRequested =>
    /\ usingPrecachedTiles(agProvider) = agBuilder.useTiles
    /\ IF usingPrecachedTiles(agProvider)
       THEN /\ agCall.resource.url =
                 <<"tile", agCall.tile.level, agCall.tile.y, agCall.tile.x>>
            /\ DOMAIN agCall.resource.queryParameters = {}
       ELSE /\ agCall.resource.url = <<"export">>
            /\ "bbox" \in DOMAIN agCall.resource.queryParameters

\* Tile (2, 3, 5) of a tiled server was requested at tile/5/3/2.
C9_Witness ==
  /\ ImageRequested
  /\ usingPrecachedTiles(agProvider)
  /\ agCall.resource.url = <<"tile", 5, 3, 2>>

\* A pickFeatures call has just returned.
PickFeaturesCalled == agCall' # agCall /\ agCall'.op = "pickFeatures"

\* C10: whenever enablePickFeatures is false at the time of the call,
\* pickFeatures returns undefined and issues no network request; the flag is
\* read on every call, so setting it after construction takes effect for the
\* following calls in either direction.
C10_PickFeaturesHonoursFlag ==
  [][PickFeaturesCalled =>
       IF agProvider.enablePickFeatures
       THEN agCall'.fetched /\ defined(agCall'.result)
       ELSE ~agCall'.fetched /\ ~defined(agCall'.result)]_vars

\* Built with picking enabled, switched off afterwards: the call fetched nothing.
C10_Witness ==
  /\ agCall.op = "pickFeatures"
  /\ agOptions.enablePickFeatures = Box(TRUE)
  /\ ~agProvider.enablePickFeatures
  /\ ~agCall.fetched
  /\ ~defined(agCall.result)


(***************************************************************************)
(* Claims about construction and metadata resolution (SpecMetadata)        *)
(***************************************************************************)
OperationsOf(c) == { o \in DOMAIN mdOperations : mdOperations[o].construction = c }

FetchesOf(c) == { f \in DOMAIN mdFetches : mdFetches[f].construction = c }

\* The construction needs discovery: always for Bing, for ArcGIS unless
\* usePreCachedTilesIfAvailable is false.
NeedsDiscovery(c) ==
  \/ mdConstructions[c].kind = "Bing"
  \/ Unbox(defaultValue(mdConstructions[c].options.usePreCachedTilesIfAvailable, Box(TRUE)))

FailedOperations(c) == { o \in OperationsOf(c) : mdOperations[o].pc = "failed" }

\* C11: for each construction that needs discovery requestMetadata executes
\* exactly once, and after it has failed no further metadata request is
\* issued on behalf of that construction.
C11_MetadataOnceNeverRetried ==
  [][\A c \in DOMAIN mdConstructions' :
       /\ (mdConstructions'[c].kind = "Bing"
           \/ Unbox(defaultValue(mdConstructions'[c].options.usePreCachedTilesIfAvailable,
                                 Box(TRUE))))
            => Cardinality({ o \in DOMAIN mdOperations' : mdOperations'[o].construction = c }) = 1
       /\ (c \in DOMAIN mdConstructions /\ FailedOperations(c) # {})
            => /\ { o \in DOMAIN mdOperations' : mdOperations'[o].construction = c }
                    = OperationsOf(c)
               /\ { f \in DOMAIN mdFetches' : mdFetches'[f].construction = c } = FetchesOf(c)]_vars

BingOperations == { o \in DOMAIN mdOperations : mdOperations[o].kind = "Bing" }

\* C12: for Bing providers, under every interleaving of constructions,
\* fetchJsonp is invoked at most once per cache key; the constructions with
\* one key all await the same promise, and constructions with different keys
\* await different ones.
C12_BingFetchOncePerKey ==
  /\ \A cacheKey \in CacheKeys :
       Cardinality({ f \in DOMAIN mdFetches :
                       mdFetches[f].kind = "Bing" /\ mdFetches[f].url = cacheKey }) <= 1
  /\ \A o \in BingOperations :
       /\ mdFetches[mdOperations[o].fetch].kind = "Bing"
       /\ mdFetches[mdOperations[o].fetch].url = mdOperations[o].resourceUrl
  /\ \A o1, o2 \in BingOperations :
       (mdOperations[o1].resourceUrl = mdOperations[o2].resourceUrl)
         <=> (mdOperations[o1].fetch = mdOperations[o2].fetch)

\* Two Bing constructions with one key await the one fetch issued, which is
\* still in flight.
C12_Witness ==
  \E o1, o2 \in BingOperations :
    /\ mdOperations[o1].construction # mdOperations[o2].construction
    /\ mdOperations[o1].fetch = mdOperations[o2].fetch
    /\ mdOperations[o1].pc = "awaiting"
    /\ mdOperations[o2].pc = "awaiting"
    /\ ~defined(mdFetches[mdOperations[o1].fetch].response)
    /\ Cardinality({ f \in DOMAIN mdFetches : mdFetches[f].kind = "Bing" }) = 1

ArcGisOperations == { o \in DOMAIN mdOperations : mdOperations[o].kind = "ArcGis" }

ConstructedProvider(c) ==
  IF mdConstructions[c].kind = "ArcGis"
  THEN ArcGisMapServerImageryProvider(mdConstructions[c].options)
  ELSE BingMapsImageryProvider(mdConstructions[c].options)

\* C14: if requestMetadata fails (transport failure, unsupported WKID after
\* the builder was partly updated, Bing resourceSets of a length other than
\* 1), build is never invoked, no provider field is written from the
\* builder, fromUrl rejects and returns no provider, and on the constructor
\* path _ready stays false.
C14_MetadataAllOrNothing ==
  \A c \in DOMAIN mdConstructions :
    FailedOperations(c) # {} =>
      /\ mdConstructions[c].builds = 0
      /\ mdConstructions[c].provider = ConstructedProvider(c)
      /\ ~mdConstructions[c].provider._ready
      /\ mdConstructions[c].fromUrl # Fulfilled
      /\ (\E o \in FailedOperations(c) : ~mdOperations[o].provider)
           => mdConstructions[c].fromUrl.state = "rejected"

\* The promise a requestMetadata call settles: _readyPromise on the
\* constructor path, the promise of fromUrl otherwise.
PromiseOf(o) ==
  IF mdOperations[o].provider
  THEN mdConstructions[mdOperations[o].construction]._readyPromise
  ELSE mdConstructions[mdOperations[o].construction].fromUrl

ErrorEventsOf(o) == mdConstructions[mdOperations[o].construction].errorEvents

\* The rejection is a RuntimeError whose message names the resource url.
RejectedWithUrl(o) ==
  /\ PromiseOf(o).state = "rejected"
  /\ PromiseOf(o).error.type = "RuntimeError"
  /\ PromiseOf(o).error.message[1] = "An error occurred while accessing "
  /\ PromiseOf(o).error.message[2] = mdOperations[o].resourceUrl

\* C15 as stated: on every construction path a fatal metadata failure
\* rejects the readiness outcome with a RuntimeError and is emitted on the
\* provider's error event, with a message that contains the endpoint url.
C15_FailureRejectsAndEmits ==
  \A o \in DOMAIN mdOperations :
    mdOperations[o].pc = "failed" =>
      /\ RejectedWithUrl(o)
      /\ \E k \in DOMAIN ErrorEventsOf(o) : ErrorEventsOf(o)[k] = PromiseOf(o).error.message

\* C15, amended: on every construction path a fatal metadata failure rejects
\* the readiness outcome with a RuntimeError whose message contains the
\* endpoint url; the message is raised on the provider's error event only
\* when the deprecated constructor started the resolution, and a failure of
\* fromUrl's own resolution raises no event.
C15_FailureRejectsEmitsOnConstructorPath ==
  /\ \A o \in DOMAIN mdOperations :
       mdOperations[o].pc = "failed" =>
         /\ RejectedWithUrl(o)
         /\ mdOperations[o].provider =>
              \E k \in DOMAIN ErrorEventsOf(o) :
                ErrorEventsOf(o)[k] = PromiseOf(o).error.message
  /\ \A c \in DOMAIN mdConstructions :
       Len(mdConstructions[c].errorEvents)
         = Cardinality({ o \in FailedOperations(c) : mdOperations[o].provider })

\* One construction failed on the constructor path and raised its event,
\* another failed in fromUrl and raised none.
C15_Witness ==
  \E o1, o2 \in DOMAIN mdOperations :
    /\ mdOperations[o1].pc = "failed"
    /\ mdOperations[o1].provider
    /\ Len(ErrorEventsOf(o1)) = 1
    /\ mdOperations[o2].pc = "failed"
    /\ ~mdOperations[o2].provider
    /\ mdConstructions[mdOperations[o2].construction].path = "fromUrl"
    /\ ~defined(mdConstructions[mdOperations[o2].construction].options.url)
    /\ PromiseOf(o2).state = "rejected"
    /\ ErrorEventsOf(o2) = <<>>

\* C16: along every execution of a construction build is invoked on the
\* provider exactly once when resolution succeeds or is skipped, never more
\* than once, and only after metadata resolution has completed.
C16_BuildExactlyOnce ==
  \A c \in DOMAIN mdConstructions :
    /\ mdConstructions[c].builds <= 1
    /\ mdConstructions[c].builds = 1 =>
         \A o \in OperationsOf(c) : mdOperations[o].pc = "built"
    /\ ~NeedsDiscovery(c) => mdConstructions[c].builds = 1
    /\ (OperationsOf(c) # {} /\ \A o \in OperationsOf(c) : mdOperations[o].pc = "built")
         => mdConstructions[c].builds = 1

(***************************************************************************)
(* What a tiled server's document commits                                  *)
(***************************************************************************)
\* The provider was built from a capability document with a tileInfo section.
BuiltFromTiledDocument ==
  /\ agPc = "ready"
  /\ DocumentArrived
  /\ defined(agResponse.data.tileInfo)

\* C17: with a tileInfo section the provider's rectangle is the rectangle
\* of the document's fullExtent when the fullExtent reports a wkid, and the
\* full rectangle of the tiling scheme tileInfo selected when the document
\* has no fullExtent or one without a wkid; options.rectangle is ignored.
C17_RectangleFromDocument ==
  BuiltFromTiledDocument =>
    LET extent == agResponse.data.fullExtent
        reported == IF defined(extent) THEN defined(WkidOf(extent)) ELSE FALSE
    IN IF reported
       THEN IF WkidOf(extent) = Box(4326)
            THEN agProvider._rectangle =
                   [of |-> "fromDegrees", west |-> extent.xmin, south |-> extent.ymin,
                    east |-> extent.xmax, north |-> extent.ymax]
            ELSE agProvider._rectangle =
                   [of |-> "unproject",
                    sw |-> <<Max(extent.xmin, -NativeHalfWidth), Max(extent.ymin, -NativeHalfWidth)>>,
                    ne |-> <<Min(extent.xmax, NativeHalfWidth), Min(extent.ymax, NativeHalfWidth)>>]
       ELSE agProvider._rectangle = [of |-> "tilingScheme", scheme |-> agProvider._tilingScheme]

\* C18: with a tileInfo section the provider's credit does not depend on
\* options.credit: it is the credit of copyrightText when the document has
\* a non-empty one and is absent otherwise.
C18_CreditFromDocument ==
  BuiltFromTiledDocument =>
    LET copyrightText == agResponse.data.copyrightText
    IN agProvider._credit =
         IF defined(copyrightText) /\ copyrightText # Box("")
         THEN [credit |-> Unbox(copyrightText)]
         ELSE Undefined

\* C19: with a tileInfo section the provider uses pre-cached tiles, and its
\* tiling scheme, tile width, tile height and maximum level are those of the
\* document (maximumLevel = number of lods - 1), whatever the caller's
\* tilingScheme, tileWidth, tileHeight and maximumLevel options were.
C19_TiledConfigurationFromDocument ==
  BuiltFromTiledDocument =>
    LET tileInfo == agResponse.data.tileInfo
        wkid == WkidOf(tileInfo)
    IN /\ agProvider._useTiles
       /\ agProvider._tilingScheme =
            (IF wkid = Box(4326) THEN "Geographic" ELSE "WebMercator")
       /\ wkid \in SupportedWkids
       /\ agProvider._tileWidth = tileInfo.rows
       /\ agProvider._tileHeight = tileInfo.cols
       /\ agProvider._maximumLevel = Box(Len(tileInfo.lods) - 1)

\* The caller set both a tile width and a maximum level (512 and 7), the
\* document reports 256 rows and three lods, and the provider has the
\* document's values.
C19_Witness ==
  /\ BuiltFromTiledDocument
  /\ agOptions.tileWidth = Box(512)
  /\ agOptions.maximumLevel = Box(7)
  /\ agResponse.data.tileInfo.rows = Box(256)
  /\ Len(agResponse.data.tileInfo.lods) = 3
  /\ agProvider._tileWidth = Box(256)
  /\ agProvider._maximumLevel = Box(2)

\* C20: the maximum level of a built provider, when it has one, is at least
\* 0, the value minimumLevel always has.
C20_MaximumLevelNotNegative ==
  (agPc = "ready" /\ defined(agProvider._maximumLevel)) =>
    Unbox(agProvider._maximumLevel) >= 0

(***************************************************************************)
(* Construction without discovery                                          *)
(***************************************************************************)
\* The caller set usePreCachedTilesIfAvailable to false and construction
\* has begun.
ConstructedWithoutTiles ==
  /\ agPc # "start"
  /\ agPc # "idle"
  /\ agOptions.usePreCachedTilesIfAvailable = Box(FALSE)

\* C21: with usePreCachedTilesIfAvailable false no capability query is ever
\* issued and the construction step itself ends with the provider built from
\* the caller's options and the defaults only: export requests, tile size
\* 256 x 256 unless the caller gave one, the caller's tilingScheme,
\* rectangle, credit and maximumLevel; on the constructor path the ready
\* promise is resolved in that same step.
C21_NoDiscoveryBuildsSynchronously ==
  ConstructedWithoutTiles =>
    /\ agFetches = 0
    /\ agResponse = Undefined
    /\ agPc = "ready"
    /\ agOutcome = [state |-> "fulfilled"]
    /\ agProvider._ready
    /\ ~agProvider._useTiles
    /\ agProvider._tileWidth = (IF agOptions.tileWidth = Undefined THEN Box(256) ELSE agOptions.tileWidth)
    /\ agProvider._tileHeight = (IF agOptions.tileHeight = Undefined THEN Box(256) ELSE agOptions.tileHeight)
    /\ agProvider._tilingScheme =
         (IF agOptions.tilingScheme = Undefined THEN "Geographic" ELSE agOptions.tilingScheme[1])
    /\ agProvider._rectangle =
         (IF agOptions.rectangle = Undefined
          THEN [of |-> "tilingScheme", scheme |-> agProvider._tilingScheme]
          ELSE agOptions.rectangle)
    /\ agProvider._credit =
         (IF agOptions.credit = Undefined THEN Undefined ELSE [credit |-> agOptions.credit[1]])
    /\ agProvider._maximumLevel = agOptions.maximumLevel
    /\ agProvider._tileDiscardPolicy = agOptions.tileDiscardPolicy

\* The deprecated constructor was given usePreCachedTilesIfAvailable false
\* and a maximum level, and returned a built provider without a query.
C21_Witness ==
  /\ ConstructedWithoutTiles
  /\ agPath = "constructor"
  /\ agOptions.maximumLevel = Box(7)
  /\ agPc = "ready"
  /\ agFetches = 0
  /\ agProvider._maximumLevel = Box(7)
  /\ ~agProvider._useTiles

(***************************************************************************)
(* The rectangle of a fullExtent                                           *)
(***************************************************************************)
\* The builder's rectangle was computed from the document's fullExtent.
RectangleFromFullExtent ==
  /\ DocumentArrived
  /\ agPc \in {"resolved", "ready"}
  /\ agResponse.data.tileInfo # Undefined
  /\ agResponse.data.fullExtent # Undefined
  /\ WkidOf(agResponse.data.fullExtent) # Undefined

InRange(v, limit) == -limit <= v /\ v <= limit

\* The two corners handed to unproject lie within +-pi * maximumRadius.
MercatorExtentClamped ==
  (RectangleFromFullExtent /\ agBuilder.rectangle.of = "unproject") =>
    /\ InRange(agBuilder.rectangle.sw[1], NativeHalfWidth)
    /\ InRange(agBuilder.rectangle.sw[2], NativeHalfWidth)
    /\ InRange(agBuilder.rectangle.ne[1], NativeHalfWidth)
    /\ InRange(agBuilder.rectangle.ne[2], NativeHalfWidth)

\* The degrees handed to Rectangle.fromDegrees are valid longitudes and
\* latitudes.
GeographicExtentClamped ==
  (RectangleFromFullExtent /\ agBuilder.rectangle.of = "fromDegrees") =>
    /\ InRange(agBuilder.rectangle.west, 180)
    /\ InRange(agBuilder.rectangle.east, 180)
    /\ InRange(agBuilder.rectangle.south, 90)
    /\ InRange(agBuilder.rectangle.north, 90)

\* C26: the rectangle computed from a fullExtent is clamped to the
\* projection's valid range whatever xmin, ymin, xmax and ymax the document
\* reports: the web-mercator coordinates handed to unproject lie within
\* +-pi * maximumRadius, and a geographic extent gives a rectangle within
\* the valid longitudes and latitudes.
C26_FullExtentClamped == MercatorExtentClamped /\ GeographicExtentClamped

(***************************************************************************)
(* The lifetime of a metadata cache entry                                  *)
(***************************************************************************)
\* The fetches of the Bing metadata resource with this url.
BingFetchesOf(fetches, cacheKey) ==
  { f \in DOMAIN fetches : fetches[f].kind = "Bing" /\ fetches[f].url = cacheKey }

\* The promise the operation awaits or awaited has been rejected.
AwaitsRejected(o) ==
  LET response == mdFetches[mdOperations[o].fetch].response
  IN IF response = Undefined THEN FALSE ELSE ~response.ok

\* C28: a promise stored in _metadataCache is never removed or replaced,
\* also when it was rejected: no later step issues another query for its
\* key, and every Bing operation on a rejected promise holds the cached
\* promise and, once it has resumed, has failed with a RuntimeError made
\* from the cached error.
C28_CacheEntryNeverEvicted ==
  [][/\ \A cacheKey \in CacheKeys :
          _metadataCache[cacheKey] # Undefined =>
            /\ _metadataCache'[cacheKey] = _metadataCache[cacheKey]
            /\ BingFetchesOf(mdFetches', cacheKey) = BingFetchesOf(mdFetches, cacheKey)
     /\ \A o \in DOMAIN mdOperations :
          (mdOperations[o].kind = "Bing" /\ AwaitsRejected(o)) =>
            /\ _metadataCache[mdOperations[o].resourceUrl] = <<mdOperations[o].fetch>>
            /\ mdOperations[o].pc \in {"awaiting", "failed"}
            /\ mdOperations'[o].pc \in {"awaiting", "failed"}
            /\ mdOperations[o].pc = "failed" =>
                 /\ PromiseOf(o).state = "rejected"
                 /\ PromiseOf(o).error.type = "RuntimeError"
                 /\ PromiseOf(o).error.message =
                      <<"An error occurred while accessing ", mdOperations[o].resourceUrl>>]_vars

\* A second Bing construction found the rejected promise of the first in
\* the cache: it awaits that promise, and there is still one query.
C28_Witness ==
  /\ Len(mdConstructions) = 2
  /\ Len(mdFetches) = 1
  /\ \E o \in DOMAIN mdOperations :
       /\ mdOperations[o].kind = "Bing"
       /\ mdOperations[o].construction = 2
       /\ mdOperations[o].pc = "awaiting"
       /\ AwaitsRejected(o)
       /\ \E first \in DOMAIN mdOperations :
            /\ mdOperations[first].construction = 1
            /\ mdOperations[first].fetch = mdOperations[o].fetch
            /\ mdOperations[first].pc = "failed"

(***************************************************************************)
(* The _ready flag                                                         *)
(***************************************************************************)
\* What build has written when it sets _ready: the builder's fields and,
\* for a tiled ArcGIS server without a supplied policy, the default one.
BuildCompleted(construction) ==
  LET provider == construction.provider
  IN IF construction.kind = "ArcGis"
     THEN /\ provider._tileWidth # Undefined
          /\ provider._tileHeight # Undefined
          /\ (provider._useTiles /\ construction.options.tileDiscardPolicy = Undefined) =>
               (provider._tileDiscardPolicy # Undefined /\ provider._maximumLevel # Undefined)
     ELSE /\ provider._tileWidth # Undefined
          /\ provider._tileHeight # Undefined
          /\ provider._maximumLevel # Undefined
          /\ provider._imageUrlTemplate # Undefined
          /\ provider._imageUrlSubdomains # Undefined
          /\ provider._attributionList # Undefined

\* C30: _ready is false from construction until build, becomes true only
\* in a step in which build runs, at the end of build, when every field and
\* any default discard policy has been written, and never returns to false;
\* the ready promise of the deprecated url constructor path is resolved only
\* when _ready is true.
C30_ReadySetOnlyByBuild ==
  [][\A c \in DOMAIN mdConstructions' :
       LET after == mdConstructions'[c]
       IN /\ after.provider._ready <=> after.builds >= 1
          /\ after.provider._ready => BuildCompleted(after)
          /\ (after.options.url # Undefined /\ after._readyPromise = [state |-> "fulfilled"])
               => after.provider._ready
          /\ c \in DOMAIN mdConstructions =>
               LET before == mdConstructions[c]
               IN /\ before.provider._ready => after.provider._ready
                  /\ (~before.provider._ready /\ after.provider._ready)
                       => after.builds = before.builds + 1]_vars

\* The deprecated constructor started a metadata resolution for each of the
\* two kinds of provider; both were built afterwards, are ready, and their
\* ready promises are resolved.
C30_Witness ==
  /\ Len(mdConstructions) = 2
  /\ mdConstructions[1].kind # mdConstructions[2].kind
  /\ \A c \in {1, 2} :
       /\ mdConstructions[c].path = "constructor"
       /\ mdConstructions[c].provider._ready
       /\ mdConstructions[c].builds = 1
       /\ mdConstructions[c]._readyPromise = [state |-> "fulfilled"]
       /\ \E o \in DOMAIN mdOperations :
            mdOperations[o].construction = c /\ mdOperations[o].pc = "built"

(***************************************************************************)
(* The results of pickFeatures                                             *)
(***************************************************************************)
\* The identify response of the last pickFeatures call has arrived.
IdentifyArrived ==
  IF agCall.op = "pickFeatures.then" THEN agCall.response.ok ELSE FALSE

\* The wkid a record's geometry counts as: its own, or 4326 without one.
EffectiveWkid(geometry) ==
  IF geometry.spatialReference = Undefined THEN 4326
  ELSE IF geometry.spatialReference.wkid \in {Undefined, <<0>>} THEN 4326
  ELSE geometry.spatialReference.wkid[1]

PickSupportedWkids == {4326, 4283, 102100, 900913, 3857}

PositionExpected(record) ==
  /\ record.geometryType = "esriGeometryPoint"
  /\ record.geometry # Undefined
  /\ EffectiveWkid(record.geometry) \in PickSupportedWkids

\* C22: the promise of pickFeatures is fulfilled with one result per record
\* of the identify response, in the order of the records; a result has a
\* position only when its record is a point with a geometry whose wkid (4326
\* when it has none) is supported, and has none for any other geometry type
\* or wkid, the record being returned all the same.
C22_PickResultsPerRecord ==
  IdentifyArrived =>
    /\ agCall.result.state = "fulfilled"
    /\ LET records == IF agCall.response.json.results = Undefined
                      THEN <<>> ELSE agCall.response.json.results
           results == agCall.result.value
       IN /\ Len(results) = Len(records)
          /\ \A i \in DOMAIN records :
               /\ results[i].data = records[i]
               /\ results[i].name = records[i].value
               /\ results[i].properties = records[i].attributes
               /\ results[i].position # Undefined => PositionExpected(records[i])
               /\ ~PositionExpected(records[i]) => results[i].position = Undefined

\* A response with a point of the unsupported wkid 102113 followed by a
\* point of wkid 3857: two results, the first without a position.
C22_Witness ==
  /\ IdentifyArrived
  /\ agCall.response.json.results # Undefined
  /\ Len(agCall.response.json.results) = 2
  /\ agCall.response.json.results[1].geometry # Undefined
  /\ agCall.response.json.results[1].geometryType = "esriGeometryPoint"
  /\ EffectiveWkid(agCall.response.json.results[1].geometry) = 102113
  /\ agCall.response.json.results[2].geometryType = "esriGeometryPoint"
  /\ agCall.response.json.results[2].geometry # Undefined
  /\ EffectiveWkid(agCall.response.json.results[2].geometry) = 3857
  /\ Len(agCall.result.value) = 2
  /\ agCall.result.value[1].position = Undefined
  /\ agCall.result.value[2].position = [unproject |-> <<10, 20, 0>>]

(***************************************************************************)
(* The failures of the iTwin platform functions                            *)
(***************************************************************************)
\* The call received a response that is not ok.
ITwinResponseNotOk ==
  IF itCall.pc = "settled"
  THEN IF itCall.response = Undefined THEN FALSE ELSE ~itCall.response.ok
  ELSE FALSE

\* The first part of the message the status asks for.
ITwinMessageFor(fn, status) ==
  IF status = 401 THEN "Unauthorized, bad token, wrong scopes or headers bad"
  ELSE IF status = 404 /\ fn = "getExport" THEN "Requested export is not available "
  ELSE IF status = 403 /\ fn # "getExport" THEN "Not allowed, forbidden"
  ELSE IF status = 422 /\ fn = "getExports" THEN "Unprocessable Entity:"
  ELSE IF status = 422 /\ fn = "createExportForModelId"
  THEN "Unprocessable: Cannot create export job"
  ELSE IF status = 429 THEN "Too many requests"
  ELSE "Unknown request failure "

\* getExport and getExports end the 401 message with ". <code>".
ITwinMessageMatches(fn, status, message) ==
  IF status = 401 /\ fn # "createExportForModelId"
  THEN message[1] = "Unauthorized, bad token, wrong scopes or headers bad. "
  ELSE /\ message[1] = ITwinMessageFor(fn, status)
       /\ message[1] = "Unknown request failure " => message[2] = status

\* C24: each function issues one fetch per call and no other, and on a
\* response that is not ok returns no result but throws the RuntimeError of
\* its status: 401 Unauthorized, 404 for getExport, 403 and 422 for
\* getExports and createExportForModelId, 429, and "Unknown request failure
\* <status>" for every other status.
C24_ITwinFailureByStatus ==
  /\ itCall.pc # "idle" => itCall.fetches <= 1
  /\ (itCall.pc # "idle" /\ itCall.response # Undefined) => itCall.fetches = 1
  /\ ITwinResponseNotOk =>
       /\ itCall.outcome.state = "rejected"
       /\ itCall.outcome.error.type = "RuntimeError"
       /\ ITwinMessageMatches(itCall.fn, itCall.response.status, itCall.outcome.error.message)


(***************************************************************************)
(* C29                                                                     *)
(***************************************************************************)
\* The attribution list as the server sent it.
RawAttributionList == Bing_resourceSet(21).resources[1].imageryProviders

\* An entry of the document converted once: its Credit, and every bbox
\* [south, west, north, east] in degrees as a Rectangle in radians.
ConvertedOnce(attribution) ==
  [ attribution |-> attribution.attribution,
    credit |-> Credit(attribution.attribution),
    coverageAreas |->
      [ a \in DOMAIN attribution.coverageAreas |->
          [ zoomMin |-> attribution.coverageAreas[a].zoomMin,
            zoomMax |-> attribution.coverageAreas[a].zoomMax,
            bbox |-> [ west |-> toRadians(attribution.coverageAreas[a].bbox[2]),
                       south |-> toRadians(attribution.coverageAreas[a].bbox[1]),
                       east |-> toRadians(attribution.coverageAreas[a].bbox[4]),
                       north |-> toRadians(attribution.coverageAreas[a].bbox[3]) ] ] ] ]

\* The Bing fetches that settled with a metadata document.
BingDocumentFetches ==
  { f \in DOMAIN mdFetches :
      /\ mdFetches[f].kind = "Bing"
      /\ IF defined(mdFetches[f].response)
         THEN IF mdFetches[f].response.ok
              THEN Len(mdFetches[f].response.data.resourceSets) = 1
              ELSE FALSE
         ELSE FALSE }

\* The operations that have built their provider from fetch f.
BuildsFrom(f) ==
  { o \in DOMAIN mdOperations : mdOperations[o].fetch = f /\ mdOperations[o].pc = "built" }

\* The list of the document with every entry converted once.
ConvertedAttributionList ==
  [ k \in DOMAIN RawAttributionList |-> ConvertedOnce(RawAttributionList[k]) ]

\* The provider operation o has built.
BuiltBy(o) == mdConstructions[mdOperations[o].construction].provider

\* C29: builds of Bing providers from one cached metadata document convert
\* its attribution list exactly once.  Before any build the shared list is
\* as the server sent it; after one build or several, every entry carries
\* its Credit and every bbox is the radian Rectangle of the original degree
\* array, converted a single time; every provider built from the document
\* holds that list, and getTileCredits answers alike for all of them.
C29_SharedAttributionConvertedOnce ==
  \A f \in BingDocumentFetches :
    LET shared == Bing_sharedAttributionList(mdFetches[f])
    IN IF BuildsFrom(f) = {}
       THEN shared = RawAttributionList
       ELSE /\ shared = ConvertedAttributionList
            /\ \A o \in BuildsFrom(f) : BuiltBy(o)._attributionList = shared
            /\ \A o1, o2 \in BuildsFrom(f) :
                 o1 < o2 =>
                   \A tile \in Bing_CreditTiles :
                     Bing_getTileCredits(BuiltBy(o1), tile.x, tile.y, tile.level)
                       = Bing_getTileCredits(BuiltBy(o2), tile.x, tile.y, tile.level)

\* Two providers have been built from one document of two attributions, and
\* a tile gets the credits of both entries from the second provider.
C29_Witness ==
  \E f \in BingDocumentFetches :
    \E o1, o2 \in BuildsFrom(f) :
      /\ mdOperations[o1].construction # mdOperations[o2].construction
      /\ Len(Bing_sharedAttributionList(mdFetches[f])) = 2
      /\ \E tile \in CreditTiles :
           Len(Bing_getTileCredits(mdConstructions[mdOperations[o2].construction].provider,
                                   tile.x, tile.y, tile.level)) = 2


(***************************************************************************)
(* C25                                                                     *)
(***************************************************************************)
\* The requestImage calls made on the Bing provider.
BingImageCalls ==
  { k \in DOMAIN calls : calls[k].of = "Bing" /\ calls[k].op = "requestImage" }

\* C25: for every tile requested from a Bing provider with a non-empty
\* subdomain list, the resource names the subdomain at index
\* (x + y + level) mod the number of subdomains, an index of the list, and
\* two requests for the same tile name the same subdomain.
C25_SubdomainByTileSum ==
  LET subdomains == mdConstructions[1].provider._imageUrlSubdomains
  IN \A k \in BingImageCalls :
       Len(subdomains) > 0 =>
         /\ \E index \in 0..(Len(subdomains) - 1) :
              /\ index = (calls[k].tile.x + calls[k].tile.y + calls[k].tile.level) % Len(subdomains)
              /\ calls[k].resource.templateValues.subdomain = subdomains[index + 1]
         /\ \A j \in BingImageCalls :
              calls[j].tile = calls[k].tile =>
                calls[j].resource.templateValues.subdomain
                  = calls[k].resource.templateValues.subdomain

\* With three subdomains, two tiles were requested that go to the second
\* and the third of them.
C25_Witness ==
  \E k, j \in BingImageCalls :
    /\ Len(mdConstructions[1].provider._imageUrlSubdomains) = 3
    /\ calls[k].resource.templateValues.subdomain = "t1"
    /\ calls[j].resource.templateValues.subdomain = "t2"

(***************************************************************************)
(* C23                                                                     *)
(***************************************************************************)
\* C23: requestImage of the Bing provider returns undefined when the loader
\* deferred the request, and then loads nothing; a load that failed with a
\* zero-length blob resolves to EMPTY_IMAGE; a load that failed otherwise
\* rejects with the error of the load; and the error event of the provider
\* has not been raised.
C23_BingRequestImageOutcomes ==
  /\ \A k \in BingImageCalls :
       LET load == calls[k].load
           result == calls[k].result
       IN IF load = Undefined THEN result = Undefined
          ELSE IF load.state = "rejected"
          THEN IF load.error.blob = [size |-> 0]
               THEN result = [state |-> "fulfilled", value |-> EMPTY_IMAGE]
               ELSE result = [state |-> "rejected", error |-> load.error]
          ELSE result = load
  /\ BingImageCalls # {} => mdConstructions[1].errorEvents = <<>>

\* One load failed with a zero-length blob and one with a blob that has
\* content.
C23_Witness ==
  \E k, j \in BingImageCalls :
    /\ calls[k].load = Rejected([type |-> "RequestErrorEvent", blob |-> [size |-> 0]])
    /\ calls[k].result = [state |-> "fulfilled", value |-> EMPTY_IMAGE]
    /\ calls[j].load = Rejected([type |-> "RequestErrorEvent", blob |-> [size |-> 7]])
    /\ calls[j].result.state = "rejected"

(***************************************************************************)
(* C27                                                                     *)
(***************************************************************************)
\* A call that returned a promise which has not settled.
InFlight(call) == call.load = Pending

\* C27: once a provider is built, no step of the per-tile calls changes the
\* provider, its readiness, its error events or the shared attribution
\* list; a step changes the record of at most one call, one that was in
\* flight, so a call that fails leaves every other call as it was, and a
\* settled call stays settled.
C27_CallsLeaveProviderAlone ==
  [][ /\ agPc = "ready" =>
           (agPc' = "ready" /\ agProvider' = agProvider /\ agErrorEvents' = agErrorEvents)
      /\ BingReady =>
           /\ mdConstructions'[1].provider = mdConstructions[1].provider
           /\ mdConstructions'[1].errorEvents = mdConstructions[1].errorEvents
           /\ mdFetches' = mdFetches
      /\ Len(calls') >= Len(calls)
      /\ \A i \in DOMAIN calls :
           calls'[i] # calls[i] =>
             /\ InFlight(calls[i])
             /\ \A j \in DOMAIN calls \ {i} : calls'[j] = calls[j]
    ]_vars

\* A call has failed while another one, made on the same built provider, is
\* still in flight.
C27_Witness ==
  /\ agPc = "ready" \/ BingReady
  /\ \E i, j \in DOMAIN calls :
       /\ calls[i].load # Undefined
       /\ calls[i].load # Pending
       /\ calls[i].load.state = "rejected"
       /\ InFlight(calls[j])

====
